---------------------------- MODULE Spec2Model ----------------------------
(***************************************************************************)
(* Bedrock Knowledge Base POC: the chunker, the chunk store, the ingestion *)
(* handlers and the sync trigger, modelled from                            *)
(*   src/lambda_codes/main_handler.py, src/lambda_codes/init_db.py,        *)
(*   src/lambda/main_handler.py, src/lambda/init_db.py,                    *)
(*   src/lambda/ingest.py, src/lambda/main_hanlder.py,                     *)
(*   src/lambda/knowledgebase_handler.py, src/lambda/index.py, src/app.py. *)
(***************************************************************************)
EXTENDS Integers, Sequences, FiniteSets, TLC

(***************************************************************************)
(* Bounds of the model.                                                    *)
(***************************************************************************)
MaxTextLen == 7
MaxChunkSize == 3
MaxRecords == 2
MaxThreads == 1
MaxCallers == 2
MaxStoreCalls == 2
MaxStoreWords == 551
MaxRetries == 3
MaxRows == 3
MaxTopK == 2
MaxDim == 2
MaxIngestions == 2
MaxWords == 301
MaxEventRecords == 2

(***************************************************************************)
(* Generic helpers.                                                        *)
(***************************************************************************)
Min(a, b) == IF a <= b THEN a ELSE b

NULL == "NULL"

(***************************************************************************)
(* Text: a Python str is a sequence of characters.                         *)
(***************************************************************************)
Whitespace == {" ", "\n"}

Chars == {"a", "b", " "}

RECURSIVE SplitFrom(_, _, _, _)
SplitFrom(text, k, cur, acc) ==
    IF k > Len(text)
    THEN IF cur = <<>> THEN acc ELSE Append(acc, cur)
    ELSE IF text[k] \in Whitespace
         THEN SplitFrom(text, k + 1, <<>>,
                        IF cur = <<>> THEN acc ELSE Append(acc, cur))
         ELSE SplitFrom(text, k + 1, Append(cur, text[k]), acc)

\* str.split(): the maximal runs of non-whitespace characters, in order.
Split(text) == SplitFrom(text, 1, <<>>, <<>>)

RECURSIVE Join(_)
\* ' '.join(words)
Join(words) ==
    IF words = <<>> THEN <<>>
    ELSE IF Len(words) = 1 THEN words[1]
    ELSE words[1] \o <<" ">> \o Join(Tail(words))

\* chunk.strip() is falsy: the string has no non-whitespace character.
IsBlank(s) == \A k \in DOMAIN s : s[k] \in Whitespace

\* words[i:j] of Python, i and j zero-based.
Slice(words, i, j) == SubSeq(words, i + 1, Min(j, Len(words)))

(***************************************************************************)
(* split_chunk_text (lambda_codes/main_handler.py).                        *)
(***************************************************************************)
range_step_NoOverlap(chunk_size, overlap) == chunk_size

\* third argument of range(0, len(words), chunk_size - overlap)
range_step(chunk_size, overlap) == chunk_size - overlap

ReachedEnd_Strict(i, chunk_size, n) == i + chunk_size > n

\* "if i + chunk_size >= len(words): break"
ReachedEnd(i, chunk_size, n) == i + chunk_size >= n

RECURSIVE WindowLoop(_, _, _, _, _)
\* The for loop over i, from loop value i on, for a text of n words: the
\* slice bounds <<i, min(i + chunk_size, n)>> of every window it takes.
WindowLoop(n, i, chunk_size, step, windows) ==
    IF i >= n THEN windows
    ELSE LET windows2 == Append(windows, <<i, Min(i + chunk_size, n)>>)
         IN  IF ReachedEnd(i, chunk_size, n)
             THEN windows2
             ELSE WindowLoop(n, i + step, chunk_size, step, windows2)

\* range(0, n, step) raises ValueError for a zero step and is empty for a
\* negative one.  The result is [done, raised, chunks].
split_windows(n, chunk_size, overlap) ==
    LET step == range_step(chunk_size, overlap)
    IN  IF step = 0 THEN [done |-> TRUE, raised |-> "ValueError", chunks |-> <<>>]
        ELSE IF step < 0 THEN [done |-> TRUE, raised |-> NULL, chunks |-> <<>>]
        ELSE [done |-> TRUE, raised |-> NULL,
              chunks |-> WindowLoop(n, 0, chunk_size, step, <<>>)]

\* chunk = ' '.join(words[i:i + chunk_size]), kept "if chunk.strip()"
split_chunk_text(text, chunk_size, overlap) ==
    LET words == Split(text)
        r == split_windows(Len(words), chunk_size, overlap)
        joined == [j \in DOMAIN r.chunks |->
                      Join(Slice(words, r.chunks[j][1], r.chunks[j][2]))]
        NotBlank(c) == ~IsBlank(c)
    IN  [r EXCEPT !.chunks = SelectSeq(joined, NotBlank)]

(***************************************************************************)
(* Configuration (lambda_codes/main_handler.py) and the schema             *)
(* (lambda_codes/init_db.py).                                              *)
(***************************************************************************)
CHUNK_SIZE == 300
DefaultOverlap == 50
MAX_POLL_SECONDS == 120
POLL_INTERVAL == 5
EmbedDim == 1536

\* Integer columns and locals that hold None / NULL.
NoneEmb == -1
NoCount == -1
NoJob == 0

VARIABLES
    split_args,       \* arguments of the split_chunk_text call under test
    split_ret,        \* its result
    store_call,       \* the last store_chunks_in_aurora call under test
    deployment,       \* which handler revision is deployed
    documents,        \* table documents, document_id = position
    document_chunks,  \* table document_chunks, chunk_id = position
    failed_chunks,    \* table failed_chunks
    jobs,             \* ingestion jobs of the managed index, job id = position
    h,                \* locals of lambda_handler (lambda_codes)
    t,                \* locals of the process_s3_file threads (lambda)
    results,          \* the handler's result list
    embed,            \* the get_chunk_embedding call under test
    query,            \* the last retrieval call and what it returned
    cosine,           \* the cosine_similarity call under test
    ingest,           \* locals of concurrent lambda_handler invocations
    api,              \* the last API invocation of lambda_handler and its response
    trig,             \* the trigger_bedrock_ingestion call under test (lambda)
    s3_objects,       \* the objects the handler has put into the bucket
    uuids,            \* the uuid.uuid4() calls made so far
    ingest_h,         \* locals of lambda_handler (lambda/ingest.py)
    router,           \* locals of lambda_handler (lambda/main_hanlder.py)
    retr,             \* the retrieve_from_knowledge_base call under test
    monitor,          \* locals of ChatApp.upload_with_monitoring
    cfn               \* the custom-resource invocation under test

vars == <<split_args, split_ret, store_call, deployment, documents, document_chunks,
          failed_chunks, jobs, h, t, results, embed, query, cosine, ingest,
          api, trig, s3_objects, uuids, ingest_h, router, retr, monitor, cfn>>

callVars == <<ingest_h, router, retr, monitor, cfn>>
s3Vars == <<s3_objects, uuids>>
chunkVars ==
    <<split_args, split_ret, store_call, embed, query, cosine, ingest, api, trig,
      callVars>>
storeVars == <<documents, document_chunks, failed_chunks>>

(***************************************************************************)
(* The relational store: statements inside one psycopg2 transaction.  A    *)
(* statement that fails on the server aborts the transaction: every later  *)
(* statement raises, and leaving "with conn:" commits nothing.             *)
(***************************************************************************)
\* column "embedding vector(1536)": NULL or a vector of exactly 1536 floats
VectorAccepted(embedding) == embedding = NoneEmb \/ embedding = EmbedDim

SameChunkKey(r1, r2) ==
    r1.document_id = r2.document_id /\ r1.chunk_index = r2.chunk_index

UpsertChunkRow_AlwaysInsert(rows, row) == Append(rows, row)

\* INSERT ... ON CONFLICT (document_id, chunk_index) DO UPDATE SET ...
UpsertChunkRow(rows, row) ==
    IF \E k \in DOMAIN rows : SameChunkKey(rows[k], row)
    THEN [k \in DOMAIN rows |->
             IF SameChunkKey(rows[k], row) THEN row ELSE rows[k]]
    ELSE Append(rows, row)

ExecUpsertChunk(tx, row) ==
    IF tx.aborted THEN [tx |-> tx, raised |-> TRUE]
    ELSE IF ~VectorAccepted(row.embedding)
         THEN [tx |-> [tx EXCEPT !.aborted = TRUE], raised |-> TRUE]
         ELSE [tx |-> [tx EXCEPT !.chunks = UpsertChunkRow(@, row)],
               raised |-> FALSE]

\* INSERT INTO failed_chunks, inside "try: ... except: pass"
ExecInsertFailedChunk(tx, row) ==
    IF tx.aborted THEN tx
    ELSE [tx EXCEPT !.failed = Append(@, row)]

EmbeddingMissing_Never(embedding) == FALSE

\* "if not embedding": None or an empty list
EmbeddingMissing(embedding) == embedding = NoneEmb \/ embedding = 0

ChunkIndexOf_Renumbered(idx, stored_count) == stored_count

\* the chunk_index parameter of the INSERT is idx of enumerate(chunks)
ChunkIndexOf(idx, stored_count) == idx

RECURSIVE StoreLoop(_, _, _, _, _, _)
\* "for idx, chunk_text in enumerate(chunks)" from position idx on; embs[k]
\* is what generate_embedding returns for the k-th chunk.
StoreLoop(document_id, chunks, embs, idx, tx, stored_count) ==
    IF idx >= Len(chunks) THEN [tx |-> tx, stored_count |-> stored_count]
    ELSE
      LET embedding == embs[idx + 1]
          row == [document_id |-> document_id,
                  chunk_index |-> ChunkIndexOf(idx, stored_count),
                  chunk_text |-> chunks[idx + 1], embedding |-> embedding,
                  status |-> "completed"]
          ex == ExecUpsertChunk(tx, row)
      IN  IF EmbeddingMissing(embedding)
          THEN StoreLoop(document_id, chunks, embs, idx + 1, tx, stored_count)
          ELSE IF ex.raised
               THEN StoreLoop(document_id, chunks, embs, idx + 1,
                              ExecInsertFailedChunk(ex.tx,
                                  [document_id |-> document_id,
                                   chunk_index |-> idx,
                                   error_reason |-> "chunk_error"]),
                              stored_count)
               ELSE StoreLoop(document_id, chunks, embs, idx + 1, ex.tx,
                              stored_count + 1)

\* store_chunks_in_aurora after get_db_conn(): the tables it leaves and the
\* count it returns.
store_chunks_in_aurora(document_id, chunks, embs, chunk_rows, failed_rows) ==
    LET r == StoreLoop(document_id, chunks, embs, 0,
                       [chunks |-> chunk_rows, failed |-> failed_rows,
                        aborted |-> FALSE], 0)
    IN  IF r.tx.aborted
        THEN [document_chunks |-> chunk_rows, failed_chunks |-> failed_rows,
              stored_count |-> r.stored_count, committed |-> FALSE]
        ELSE [document_chunks |-> r.tx.chunks, failed_chunks |-> r.tx.failed,
              stored_count |-> r.stored_count, committed |-> TRUE]

\* the UPDATE of update_document_status, with its COALESCE columns
UpdateDocumentRow(docs, doc_id, status, job_id, error_message, chunk_count) ==
    [docs EXCEPT ![doc_id] =
        [@ EXCEPT !.status = status,
                  !.ingestion_job_id = IF job_id # NoJob THEN job_id ELSE @,
                  !.error_message = error_message,
                  !.chunk_count = IF chunk_count # NoCount THEN chunk_count ELSE @]]

\* "The quick brown fox jumps over the lazy dog"
FoxText ==
    <<"T", "h", "e", " ", "q", "u", "i", "c", "k", " ", "b", "r", "o", "w", "n",
      " ", "f", "o", "x", " ", "j", "u", "m", "p", "s", " ", "o", "v", "e", "r",
      " ", "t", "h", "e", " ", "l", "a", "z", "y", " ", "d", "o", "g">>

Texts == UNION {[1..n -> Chars] : n \in 0..MaxTextLen}

SplitInputs ==
    {[text |-> txt, chunk_size |-> cs, overlap |-> ov] :
        txt \in Texts, cs \in 1..MaxChunkSize, ov \in 0..MaxChunkSize}
    \cup {[text |-> FoxText, chunk_size |-> 4, overlap |-> 1]}

(***************************************************************************)
(* Values shared by the specifications.                                    *)
(***************************************************************************)
\* An S3 object key: key.startswith(S3_INCOMING_PREFIX) is prefix =
\* "bedrock-poc-docs/", key.endswith('.metadata.json') is suffix =
\* ".metadata.json".
S3Key(prefix, name, suffix) == [prefix |-> prefix, name |-> name, suffix |-> suffix]

S3_INCOMING_PREFIX == "bedrock-poc-docs/"

S3Keys ==
    {S3Key(S3_INCOMING_PREFIX, "a.txt", ""),
     S3Key(S3_INCOMING_PREFIX, "a.txt", ".metadata.json"), S3Key("other/", "a.txt", "")}

NoKey == S3Key("", "", "")

\* The extracted text of a document, as its number of words; a chunk of it
\* is the window <<i, j>> standing for ' '.join(words[i:j]).
TextWords == {0, 1, MaxWords}

\* What generate_embedding returns, as the length of the vector: None, an
\* empty list, a vector of the wrong length, a vector of 1536 floats.
EmbeddingResults == {NoneEmb, 0, EmbedDim - 1, EmbedDim}

DbOutcomes == {"ok", "connect_error", "statement_error"}

ActiveJobStatuses == {"IN_PROGRESS"}

IdleSplitRet == [done |-> FALSE, raised |-> NULL, chunks |-> <<>>]

IdleHandler ==
    [pc |-> "idle", n |-> 0, s3_key |-> NoKey, text |-> 0, doc_id |-> 0,
     stored_count |-> 0, chunks_committed |-> FALSE, job_id |-> NoJob,
     elapsed |-> 0, polls |-> 0,
     job_status |-> NULL, failure_reason |-> NULL]

NoStoreCall ==
    [n |-> 0, document_id |-> 0, chunks |-> <<>>, embs |-> <<>>,
     stored_count |-> 0, rows_before |-> 0, repeated |-> FALSE]

IdleThread ==
    [pc |-> "idle", key |-> NoKey, attempt |-> 0, only_conflicts |-> TRUE,
     trigger_ret |-> NULL]

IdleThreads == <<>>

IdleQuery ==
    [pc |-> "idle", fn |-> NULL, q |-> <<>>, top_k |-> 0, tenant_id |-> NULL,
     rows |-> <<>>, result |-> <<>>]

IdleEmbed ==
    [pc |-> "idle", retries |-> 0, answers |-> <<>>, attempt |-> 0, calls |-> 0,
     waits |-> <<>>, ret |-> NoneEmb, raised |-> NULL]

IdleCosine == [pc |-> "idle", a |-> <<>>, b |-> <<>>, ret |-> 0, raised |-> NULL]

\* document_id=None of a request
NoDocId == 0

\* fetchone() without a row, and get_document_status returning None
NoRow ==
    [document_id |-> NoDocId, s3_key |-> NoKey, status |-> NULL,
     ingestion_job_id |-> NoJob, chunk_count |-> NoCount, error_message |-> NULL]

IdleApi ==
    [pc |-> "idle", action |-> NULL, document_id |-> NoDocId, s3_key |-> NoKey,
     db |-> NULL, statusCode |-> 0, body |-> [error |-> NULL, document |-> NoRow]]

IdleTrigger ==
    [pc |-> "idle", attempt |-> 0, elapsed |-> 0, polls |-> 0, listing |-> NULL,
     wait_ok |-> TRUE, starts |-> 0, error |-> NULL, sleeps |-> 0,
     backoff |-> 0, ret |-> NULL]

IdleUuids == [calls |-> 0, document_id |-> <<>>]

IdleBatch ==
    [pc |-> "idle", calls |-> 0, faults |-> 0, n |-> 0, texts |-> <<>>,
     tx_documents |-> <<>>, tx_chunks |-> <<>>,
     all_chunks |-> <<>>, chunk_text_bound |-> FALSE, docs_before |-> 0,
     chunks_before |-> 0, attempt |-> 0, raised |-> NULL, statusCode |-> 0]

IdleRouter ==
    [pc |-> "idle", records |-> <<>>, event |-> <<>>, i |-> 0, responses |-> <<>>]

\* with the tables query_history and query_results that the call writes
IdleRetrieve ==
    [pc |-> "idle", k |-> 0, tenant_id |-> NULL, retrieved |-> FALSE,
     retrieval_results |-> <<>>, audit_failed |-> FALSE, ret |-> <<>>,
     query_history |-> <<>>, query_results |-> <<>>]

IdleMonitor ==
    [pc |-> "idle", s3_key |-> NoKey, poll_count |-> 0, status |-> NULL,
     terminal_poll |-> 0, yielded |-> {}]

IdleCfn ==
    [pc |-> "idle", handler |-> "none",
     event |-> [ResponseURL |-> FALSE, ResourceProperties |-> FALSE,
                properties |-> {}],
     index_name_bound |-> FALSE, conn |-> FALSE, error |-> FALSE,
     responses |-> <<>>, statusCode |-> 0, raised |-> NULL]

NoCalls ==
    /\ s3_objects = <<>>
    /\ uuids = IdleUuids
    /\ ingest_h = IdleBatch
    /\ router = IdleRouter
    /\ retr = IdleRetrieve
    /\ monitor = IdleMonitor
    /\ cfn = IdleCfn

EmptyStore ==
    /\ documents = <<>>
    /\ document_chunks = <<>>
    /\ failed_chunks = <<>>

(***************************************************************************)
(* SpecChunk: split_chunk_text applied to bounded inputs.                  *)
(***************************************************************************)
InitChunk ==
    /\ split_args \in SplitInputs
    /\ split_ret = IdleSplitRet
    /\ store_call = NoStoreCall
    /\ embed = IdleEmbed
    /\ query = IdleQuery
    /\ cosine = IdleCosine
    /\ NoCalls
    /\ ingest = <<>>
    /\ api = IdleApi
    /\ trig = IdleTrigger
    /\ deployment = "none"
    /\ EmptyStore
    /\ jobs = <<>>
    /\ h = IdleHandler
    /\ t = IdleThreads
    /\ results = <<>>

CallSplitChunkText ==
    /\ ~split_ret.done
    /\ split_ret' = split_chunk_text(split_args.text, split_args.chunk_size,
                                     split_args.overlap)
    /\ UNCHANGED <<callVars, s3Vars, cosine, ingest, api, trig, split_args, store_call, embed, query, deployment, storeVars, jobs,
                   h, t, results>>

NextChunk == CallSplitChunkText

SpecChunk == InitChunk /\ [][NextChunk]_vars

(***************************************************************************)
(* The managed index (Bedrock): ingestion jobs of the one data source.     *)
(***************************************************************************)
JobActive(j) == jobs[j] \in ActiveJobStatuses

ServiceAcceptsStart_Always == TRUE

\* start_ingestion_job answers ConflictException while a job of the data
\* source is running (the answer both triggers handle).
ServiceAcceptsStart == \A j \in DOMAIN jobs : ~JobActive(j)

ServiceAdvance(j) ==
    /\ JobActive(j)
    /\ \E st \in {"COMPLETE", "FAILED"} : jobs' = [jobs EXCEPT ![j] = st]
    /\ UNCHANGED <<chunkVars, s3Vars, deployment, storeVars, h, t, results>>

(***************************************************************************)
(* lambda_handler, S3 branch (lambda_codes/main_handler.py).               *)
(***************************************************************************)
\* locals of one loop iteration, cleared when the loop takes the next record
NextIteration(hh) ==
    [IdleHandler EXCEPT !.pc = "loop", !.n = hh.n]

\* "except Exception as e" of the loop body: the record is reported as an
\* error and the loop goes on
HandlerExcept(reason) ==
    /\ results' = Append(results, [file |-> h.s3_key, status |-> "error",
                                   reason |-> reason])
    /\ h' = NextIteration(h)

SkipRecord_PrefixOnly(key) == key.prefix # S3_INCOMING_PREFIX

\* "Skip metadata files and non-document files"
SkipRecord(key) ==
    key.prefix # S3_INCOMING_PREFIX \/ key.suffix = ".metadata.json"

\* for record in event.get("Records", []): a record is skipped unless its
\* key is under the incoming prefix and is not a metadata file
H_Record(key) ==
    /\ deployment = "lambda_codes"
    /\ h.pc = "loop"
    /\ h.n < MaxRecords
    /\ IF SkipRecord(key)
       THEN h' = [h EXCEPT !.n = @ + 1]
       ELSE h' = [h EXCEPT !.n = @ + 1, !.pc = "extract", !.s3_key = key]
    /\ UNCHANGED <<chunkVars, s3Vars, deployment, storeVars, jobs, t, results>>

H_Return ==
    /\ deployment = "lambda_codes"
    /\ h.pc = "loop"
    /\ h' = [h EXCEPT !.pc = "returned"]
    /\ UNCHANGED <<chunkVars, s3Vars, deployment, storeVars, jobs, t, results>>

\* metadata_key = s3_key + ".metadata.json"
MetadataKey(s3_key) == S3Key(s3_key.prefix, s3_key.name \o s3_key.suffix, ".metadata.json")

\* s3.put_object: the object is created, or replaces the object of its key
PutObject(objects, object) ==
    IF \E o \in DOMAIN objects : objects[o].key = object.key
    THEN [o \in DOMAIN objects |->
             IF objects[o].key = object.key THEN object ELSE objects[o]]
    ELSE Append(objects, object)

\* the uuid.uuid4() calls that build metadata_dict: document_id, tenant_id,
\* user_id, project_id, thread_id
MetadataUuidCalls == 5

\* extract_text_from_s3 and the empty-text check, then metadata_dict and
\* create_s3_metadata_file, which returns None when put_object fails.  The
\* n-th uuid.uuid4() call of the behaviour returns the identifier n.
H_Extract ==
    /\ deployment = "lambda_codes"
    /\ h.pc = "extract"
    /\ \/ /\ HandlerExcept("ClientError")
          /\ UNCHANGED s3Vars
       \/ /\ results' = Append(results, [file |-> h.s3_key, status |-> "empty",
                                         reason |-> NULL])
          /\ h' = NextIteration(h)
          /\ UNCHANGED s3Vars
       \/ \E w \in TextWords \ {0}, put \in BOOLEAN :
             /\ h' = [h EXCEPT !.pc = "insert_document", !.text = w]
             /\ uuids' = [uuids EXCEPT !.calls = @ + MetadataUuidCalls]
             /\ s3_objects' =
                   IF put
                   THEN PutObject(s3_objects,
                                  [key |-> MetadataKey(h.s3_key), of |-> h.s3_key,
                                   document_id |-> uuids.calls + 1,
                                   event |-> "pending"])
                   ELSE s3_objects
             /\ UNCHANGED results
    /\ UNCHANGED <<chunkVars, deployment, storeVars, jobs, t>>

KeyExists_Never(key) == FALSE

\* documents.s3_key is UNIQUE
KeyExists(key) == \E d \in DOMAIN documents : documents[d].s3_key = key

\* insert_document_record: get_db_conn() or the INSERT may fail, and the
\* INSERT fails when a row with this s3_key exists; every failure is
\* re-raised to the handler.  doc_id = str(uuid.uuid4()) is the row's
\* document_id, kept in uuids.document_id at the row's position.
H_InsertDocument(out) ==
    /\ deployment = "lambda_codes"
    /\ h.pc = "insert_document"
    /\ IF out = "ok" /\ ~KeyExists(h.s3_key)
       THEN /\ documents' = Append(documents,
                   [s3_key |-> h.s3_key, status |-> "processing",
                    ingestion_job_id |-> NoJob, error_message |-> NULL,
                    chunk_count |-> 0])
            /\ h' = [h EXCEPT !.pc = "store", !.doc_id = Len(documents) + 1]
            /\ uuids' = [uuids EXCEPT !.calls = @ + 1,
                                      !.document_id = Append(@, uuids.calls + 1)]
            /\ UNCHANGED results
       ELSE /\ HandlerExcept(IF out = "ok" THEN "UniqueViolation"
                              ELSE "OperationalError")
            /\ uuids' = IF out = "connect_error" THEN uuids
                        ELSE [uuids EXCEPT !.calls = @ + 1]
            /\ UNCHANGED documents
    /\ UNCHANGED <<chunkVars, s3_objects, deployment, document_chunks, failed_chunks, jobs, t>>

HandlerChunks(text) == split_windows(text, CHUNK_SIZE, DefaultOverlap)

\* chunks = split_chunk_text(text, chunk_size=CHUNK_SIZE);
\* stored_count = store_chunks_in_aurora(doc_id, chunks, metadata_dict)
H_StoreChunks ==
    /\ deployment = "lambda_codes"
    /\ h.pc = "store"
    /\ LET cr == HandlerChunks(h.text) IN
       \/ /\ cr.raised # NULL
          /\ HandlerExcept(cr.raised)
          /\ UNCHANGED <<document_chunks, failed_chunks>>
       \/ \* get_db_conn() raises before the try block
          /\ HandlerExcept("OperationalError")
          /\ UNCHANGED <<document_chunks, failed_chunks>>
       \/ /\ cr.raised = NULL
          /\ \E embs \in [DOMAIN cr.chunks -> EmbeddingResults] :
               LET r == store_chunks_in_aurora(h.doc_id, cr.chunks, embs,
                                               document_chunks, failed_chunks)
               IN  /\ document_chunks' = r.document_chunks
                   /\ failed_chunks' = r.failed_chunks
                   /\ h' = [h EXCEPT !.pc = "update_processing",
                                     !.stored_count = r.stored_count,
                                     !.chunks_committed = r.committed]
                   /\ UNCHANGED results
    /\ UNCHANGED <<chunkVars, s3Vars, deployment, documents, jobs, t>>

\* update_document_status: get_db_conn() is called before the try block, so
\* a connection failure is raised to the caller; a failure of the UPDATE is
\* logged and swallowed.  "out" is what the database does; on a normal
\* return the handler goes on at "next" and appends "entries" to results.
update_document_status(out, status, job_id, error_message, chunk_count, next, entries) ==
    CASE out = "ok" ->
            /\ documents' = UpdateDocumentRow(documents, h.doc_id, status, job_id,
                                              error_message, chunk_count)
            /\ h' = next
            /\ results' = results \o entries
      [] out = "statement_error" ->
            /\ h' = next
            /\ results' = results \o entries
            /\ UNCHANGED documents
      [] out = "connect_error" ->
            /\ HandlerExcept("OperationalError")
            /\ UNCHANGED documents

\* update_document_status(doc_id, status="processing", chunk_count=stored_count)
H_UpdateProcessing(out) ==
    /\ deployment = "lambda_codes"
    /\ h.pc = "update_processing"
    /\ update_document_status(out, "processing", NoJob, NULL, h.stored_count,
                              [h EXCEPT !.pc = "trigger"], <<>>)
    /\ UNCHANGED <<chunkVars, s3Vars, deployment, document_chunks, failed_chunks, jobs, t>>

\* trigger_bedrock_ingestion(): the job id, or None on any exception
H_Trigger ==
    /\ deployment = "lambda_codes"
    /\ h.pc = "trigger"
    /\ \/ /\ ServiceAcceptsStart
          /\ jobs' = Append(jobs, "IN_PROGRESS")
          /\ h' = [h EXCEPT !.pc = "wait", !.job_id = Len(jobs) + 1, !.elapsed = 0]
       \/ /\ h' = [h EXCEPT !.pc = "start_failed"]
          /\ UNCHANGED jobs
    /\ UNCHANGED <<chunkVars, s3Vars, deployment, storeVars, results, t>>

\* "if not job_id": update_document_status(doc_id, "failed", ...); continue
H_UpdateStartFailed(out) ==
    /\ deployment = "lambda_codes"
    /\ h.pc = "start_failed"
    /\ update_document_status(out, "failed", NoJob, "Failed to start ingestion job",
                              NoCount, NextIteration(h),
                              <<[file |-> h.s3_key, status |-> "failed",
                                 reason |-> "No job ID"]>>)
    /\ UNCHANGED <<chunkVars, s3Vars, deployment, document_chunks, failed_chunks, jobs, t>>

\* status.lower() for the two statuses wait_for_bedrock_job returns
Lower(status) == IF status = "COMPLETE" THEN "complete" ELSE "failed"

PollReturn(polls, job_status, failure_reason) ==
    h' = [h EXCEPT !.pc = "final_update", !.polls = polls,
                   !.job_status = job_status, !.failure_reason = failure_reason]

PollAgain_Inclusive(elapsed) == elapsed <= MAX_POLL_SECONDS

\* while elapsed < MAX_POLL_SECONDS
PollAgain(elapsed) == elapsed < MAX_POLL_SECONDS

\* wait_for_bedrock_job: one evaluation of the while condition and, when it
\* holds, one get_ingestion_job call
H_Poll ==
    /\ deployment = "lambda_codes"
    /\ h.pc = "wait"
    /\ IF PollAgain(h.elapsed)
       THEN \/ PollReturn(h.polls + 1, "failed", "poll_error")
            \/ /\ jobs[h.job_id] \in {"COMPLETE", "FAILED"}
               /\ PollReturn(h.polls + 1, Lower(jobs[h.job_id]),
                             IF jobs[h.job_id] = "FAILED" THEN "failure_reason"
                             ELSE NULL)
            \/ /\ jobs[h.job_id] \notin {"COMPLETE", "FAILED"}
               /\ h' = [h EXCEPT !.elapsed = @ + POLL_INTERVAL,
                                 !.polls = @ + 1]
       ELSE PollReturn(h.polls, "failed", "Job polling timeout")
    /\ UNCHANGED <<chunkVars, s3Vars, deployment, storeVars, jobs, t, results>>

FinalErrorMessage_Never(job_status, failure_reason) == NULL

\* error_message=failure_reason if job_status == "failed" else None
FinalErrorMessage(job_status, failure_reason) ==
    IF job_status = "failed" THEN failure_reason ELSE NULL

\* update_document_status(doc_id, status=job_status, job_id=job_id, ...) and
\* the result entry of the record
H_FinalUpdate(out) ==
    /\ deployment = "lambda_codes"
    /\ h.pc = "final_update"
    /\ update_document_status(out, h.job_status, h.job_id,
                              FinalErrorMessage(h.job_status, h.failure_reason),
                              h.stored_count, NextIteration(h),
                              <<[file |-> h.s3_key, status |-> h.job_status,
                                 reason |-> NULL]>>)
    /\ UNCHANGED <<chunkVars, s3Vars, deployment, document_chunks, failed_chunks, jobs, t>>

\* the SELECT of get_document_status: by document_id when one is given,
\* else by s3_key; fetchone() gives the row or None
SelectDocument(document_id, s3_key) ==
    LET Match(d) == IF document_id # NoDocId THEN d = document_id
                    ELSE documents[d].s3_key = s3_key
        found == {d \in DOMAIN documents : Match(d)}
    IN  IF found = {} THEN NoRow
        ELSE LET d == CHOOSE x \in found : \A y \in found : x <= y
             IN  [document_id |-> d, s3_key |-> documents[d].s3_key,
                  status |-> documents[d].status,
                  ingestion_job_id |-> documents[d].ingestion_job_id,
                  chunk_count |-> documents[d].chunk_count,
                  error_message |-> documents[d].error_message]

\* get_document_status: ValueError without a selector; get_db_conn() is
\* called before the try block; any failure of the SELECT is logged and
\* None is returned
get_document_status(document_id, s3_key, out) ==
    IF document_id = NoDocId /\ s3_key = NoKey
    THEN [raised |-> "ValueError", ret |-> NoRow]
    ELSE IF out = "connect_error"
         THEN [raised |-> "OperationalError", ret |-> NoRow]
         ELSE IF out = "statement_error" THEN [raised |-> NULL, ret |-> NoRow]
              ELSE [raised |-> NULL, ret |-> SelectDocument(document_id, s3_key)]

\* lambda_handler with action 'get_status', invoked once the invocation
\* that handles the S3 event has returned
A_GetStatus(document_id, s3_key, out) ==
    /\ deployment = "lambda_codes"
    /\ h.pc = "returned"
    /\ LET r == get_document_status(document_id, s3_key, out)
           Body(error, document) == [error |-> error, document |-> document]
           response == IF r.raised # NULL
                       THEN [statusCode |-> 500, body |-> Body(r.raised, NoRow)]
                       ELSE IF r.ret # NoRow
                            THEN [statusCode |-> 200, body |-> Body(NULL, r.ret)]
                            ELSE [statusCode |-> 404,
                                  body |-> Body("Document not found", NoRow)]
       IN  api' = [pc |-> "returned", action |-> "get_status",
                   document_id |-> document_id, s3_key |-> s3_key, db |-> out,
                   statusCode |-> response.statusCode, body |-> response.body]
    /\ UNCHANGED <<callVars, s3Vars, trig, split_args, split_ret, store_call, embed, query, cosine, ingest,
                   deployment, storeVars, jobs, h, t, results>>

\* the get_status requests: by document_id (of a row or of none), by
\* s3_key, by both, by neither
StatusRequests ==
    LET key == S3Key(S3_INCOMING_PREFIX, "a.txt", "")
    IN  {<<1, NoKey>>, <<MaxRecords + 1, NoKey>>, <<NoDocId, key>>,
         <<NoDocId, S3Key("other/", "a.txt", "")>>, <<MaxRecords + 1, key>>,
         <<NoDocId, NoKey>>}

(***************************************************************************)
(* lambda/main_handler.py: process_s3_file, run by handle_records_parallel *)
(* in one worker thread per record, against the schema of                  *)
(* lambda/init_db.py.                                                      *)
(***************************************************************************)
BATCH_SIZE == 20
MAX_INGEST_RETRIES == 8

\* column "embedding_vector VECTOR(1536) NOT NULL", value cast by %s::vector
LegacyVectorAccepted(embedding) == embedding = EmbedDim

\* What get_chunk_embedding returns, as the length of the list: [] after
\* the last failed attempt or for an answer without embedding, else the
\* floats of the answer.
LegacyEmbeddingResults == {0, EmbedDim - 1, EmbedDim}

RECURSIVE NoOverlapWindows(_, _, _)
\* split_into_chunks: words[i:i+chunk_size] for i in range(0, n, chunk_size)
NoOverlapWindows(n, i, chunk_size) ==
    IF i >= n THEN <<>>
    ELSE <<<<i, Min(i + chunk_size, n)>>>> \o NoOverlapWindows(n, i + chunk_size, chunk_size)

split_into_chunks(text, chunk_size) == NoOverlapWindows(text, 0, chunk_size)

RECURSIVE InsertBatches(_, _, _)
\* "for i in range(0, len(records), BATCH_SIZE)": executemany of the batch;
\* when it raises, every row of the batch is tried alone, which raises
\* again in the aborted transaction and is only logged.
InsertBatches(tx, records, i) ==
    IF i >= Len(records) THEN tx
    ELSE LET batch == Slice(records, i, i + BATCH_SIZE)
             ok == /\ ~tx.aborted
                   /\ \A k \in DOMAIN batch : LegacyVectorAccepted(batch[k].embedding)
         IN  InsertBatches(IF ok THEN [tx EXCEPT !.chunks = @ \o batch]
                           ELSE [tx EXCEPT !.aborted = TRUE],
                           records, i + BATCH_SIZE)

\* upsert_document_and_chunks after get_db_conn(): the INSERT of the
\* documents row, the chunk batches, the metadata INSERT (which raises in an
\* aborted transaction, and the transaction is rolled back) and the UPDATE
\* to 'completed', all in one transaction.
upsert_document_and_chunks(document_name, chunks, embs, docs, chunk_rows) ==
    LET document_id == Len(docs) + 1
        records == [k \in DOMAIN chunks |->
                       [document_id |-> document_id, chunk_index |-> k - 1,
                        chunk_text |-> chunks[k], embedding |-> embs[k],
                        status |-> "completed"]]
        tx == InsertBatches([chunks |-> chunk_rows, aborted |-> FALSE], records, 0)
    IN  IF tx.aborted
        THEN [raised |-> TRUE, documents |-> docs, document_chunks |-> chunk_rows]
        ELSE [raised |-> FALSE,
              documents |-> Append(docs, [document_name |-> document_name,
                                          status |-> "completed"]),
              document_chunks |-> tx.chunks]

\* trigger_bedrock_ingestion returns ret (a job id or None) and
\* process_s3_file returns its "success" entry
TriggerReturns(i, ret) ==
    /\ t' = [t EXCEPT ![i] = [@ EXCEPT !.pc = "done", !.trigger_ret = ret]]
    /\ results' = Append(results, [file |-> t[i].key, status |-> "success"])

\* process_s3_file up to the commit of upsert_document_and_chunks: prefix
\* check, text extraction, chunking, one embedding per chunk, the upsert.
L_Ingest(i, key) ==
    /\ deployment = "lambda"
    /\ t[i].pc = "new"
    /\ IF key.prefix # S3_INCOMING_PREFIX
       THEN /\ t' = [t EXCEPT ![i] = [@ EXCEPT !.pc = "done", !.key = key]]
            /\ results' = Append(results, [file |-> key, status |-> "skipped",
                                            reason |-> "not-incoming-prefix"])
            /\ UNCHANGED <<documents, document_chunks>>
       ELSE \/ \* empty text, also when the extraction failed
               /\ t' = [t EXCEPT ![i] = [@ EXCEPT !.pc = "done", !.key = key]]
               /\ results' = Append(results, [file |-> key, status |-> "skipped",
                                               reason |-> "empty"])
               /\ UNCHANGED <<documents, document_chunks>>
            \/ \* get_db_conn() raises
               /\ t' = [t EXCEPT ![i] = [@ EXCEPT !.pc = "done", !.key = key]]
               /\ results' = Append(results, [file |-> key, status |-> "error",
                                               error |-> "OperationalError"])
               /\ UNCHANGED <<documents, document_chunks>>
            \/ \E w \in TextWords \ {0} :
                 LET chunks == split_into_chunks(w, CHUNK_SIZE) IN
                 \E embs \in [DOMAIN chunks -> LegacyEmbeddingResults] :
                   LET r == upsert_document_and_chunks(key, chunks, embs,
                                                       documents, document_chunks)
                   IN  /\ documents' = r.documents
                       /\ document_chunks' = r.document_chunks
                       /\ IF r.raised
                          THEN /\ t' = [t EXCEPT ![i] =
                                         [@ EXCEPT !.pc = "done", !.key = key]]
                               /\ results' = Append(results,
                                      [file |-> key, status |-> "error",
                                       error |-> "InFailedSqlTransaction"])
                          ELSE /\ t' = [t EXCEPT ![i] =
                                         [@ EXCEPT !.pc = "export", !.key = key]]
                               /\ UNCHANGED results
    /\ UNCHANGED <<chunkVars, s3Vars, deployment, failed_chunks, jobs, h>>

\* export_chunks_to_s3: a failed put_object is raised to process_s3_file
L_Export(i) ==
    /\ deployment = "lambda"
    /\ t[i].pc = "export"
    /\ \/ /\ t' = [t EXCEPT ![i] = [@ EXCEPT !.pc = "poll", !.attempt = 0]]
          /\ UNCHANGED results
       \/ /\ t' = [t EXCEPT ![i] = [@ EXCEPT !.pc = "done"]]
          /\ results' = Append(results, [file |-> t[i].key, status |-> "error",
                                          error |-> "ClientError"])
    /\ UNCHANGED <<chunkVars, s3Vars, deployment, storeVars, jobs, h>>

\* is_ingestion_running: some listed job has a status outside the four
\* names; an exception of list_ingestion_jobs gives an empty list
is_ingestion_running ==
    \E j \in DOMAIN jobs :
        jobs[j] \notin {"COMPLETED", "FAILED", "CANCELLED", "STOPPED"}

\* trigger_bedrock_ingestion, head of "for attempt in range(max_retries)"
\* and wait_until_ingestion_free: the wait ends when no job is seen
\* running, when listing fails, or at its timeout; after the last attempt
\* the function returns None and process_s3_file reports success.
L_Poll(i) ==
    /\ deployment = "lambda"
    /\ t[i].pc = "poll"
    /\ IF t[i].attempt >= MAX_INGEST_RETRIES
       THEN TriggerReturns(i, "None")
       ELSE /\ \/ ~is_ingestion_running     \* no job seen running
               \/ TRUE                      \* list_ingestion_jobs raised
               \/ is_ingestion_running      \* still busy at the timeout
            /\ t' = [t EXCEPT ![i] = [@ EXCEPT !.pc = "start"]]
            /\ UNCHANGED results
    /\ UNCHANGED <<chunkVars, s3Vars, deployment, storeVars, jobs, h>>

\* start_ingestion_job of one attempt: the job id is returned, or the
\* ConflictException or any other exception is followed by the backoff
\* sleep and the next attempt
L_Start(i) ==
    /\ deployment = "lambda"
    /\ t[i].pc = "start"
    /\ \/ /\ ServiceAcceptsStart
          /\ jobs' = Append(jobs, "IN_PROGRESS")
          /\ TriggerReturns(i, "job_id")
       \/ /\ ~ServiceAcceptsStart
          /\ t' = [t EXCEPT ![i] = [@ EXCEPT !.pc = "poll", !.attempt = @ + 1]]
          /\ UNCHANGED <<jobs, results>>
       \/ /\ t' = [t EXCEPT ![i] = [@ EXCEPT !.pc = "poll", !.attempt = @ + 1,
                                             !.only_conflicts = FALSE]]
          /\ UNCHANGED <<jobs, results>>
    /\ UNCHANGED <<chunkVars, s3Vars, deployment, storeVars, h>>

(***************************************************************************)
(* Spec: one invocation of the deployed ingestion handler on an event of   *)
(* at most MaxRecords records, with the managed index beside it.           *)
(***************************************************************************)
Init ==
    /\ split_args = [text |-> <<>>, chunk_size |-> CHUNK_SIZE,
                     overlap |-> DefaultOverlap]
    /\ split_ret = IdleSplitRet
    /\ store_call = NoStoreCall
    /\ embed = IdleEmbed
    /\ query = IdleQuery
    /\ cosine = IdleCosine
    /\ NoCalls
    /\ ingest = <<>>
    /\ api = IdleApi
    /\ trig = IdleTrigger
    /\ deployment \in {"lambda_codes", "lambda"}
    /\ EmptyStore
    /\ jobs = <<>>
    /\ h = IF deployment = "lambda_codes" THEN [IdleHandler EXCEPT !.pc = "loop"]
           ELSE IdleHandler
    /\ t = IF deployment = "lambda"
           THEN [i \in 1..MaxThreads |-> [IdleThread EXCEPT !.pc = "new"]]
           ELSE IdleThreads
    /\ results = <<>>

Next ==
    \/ \E key \in S3Keys : H_Record(key)
    \/ H_Return
    \/ H_Extract
    \/ \E out \in DbOutcomes : H_InsertDocument(out)
    \/ H_StoreChunks
    \/ \E out \in DbOutcomes : H_UpdateProcessing(out)
    \/ H_Trigger
    \/ \E out \in DbOutcomes : H_UpdateStartFailed(out)
    \/ H_Poll
    \/ \E out \in DbOutcomes : H_FinalUpdate(out)
    \/ \E i \in DOMAIN t, key \in S3Keys : L_Ingest(i, key)
    \/ \E i \in DOMAIN t : L_Export(i)
    \/ \E i \in DOMAIN t : L_Poll(i)
    \/ \E i \in DOMAIN t : L_Start(i)
    \/ \E j \in DOMAIN jobs : ServiceAdvance(j)
    \/ \E req \in StatusRequests, out \in DbOutcomes : A_GetStatus(req[1], req[2], out)

Spec == Init /\ [][Next]_vars

(***************************************************************************)
(* SpecSync: MaxCallers worker threads of handle_records_parallel that     *)
(* have each committed and exported a one-chunk document and now call      *)
(* trigger_bedrock_ingestion concurrently.                                 *)
(***************************************************************************)
InitSync ==
    /\ split_args = [text |-> <<>>, chunk_size |-> CHUNK_SIZE,
                     overlap |-> DefaultOverlap]
    /\ split_ret = IdleSplitRet
    /\ store_call = NoStoreCall
    /\ embed = IdleEmbed
    /\ query = IdleQuery
    /\ cosine = IdleCosine
    /\ NoCalls
    /\ ingest = <<>>
    /\ api = IdleApi
    /\ trig = IdleTrigger
    /\ deployment = "lambda"
    /\ documents = [i \in 1..MaxCallers |->
                       [document_name |-> S3Key(S3_INCOMING_PREFIX, "a.txt", ""),
                        status |-> "completed"]]
    /\ document_chunks = [i \in 1..MaxCallers |->
                       [document_id |-> i, chunk_index |-> 0,
                        chunk_text |-> <<0, 1>>, embedding |-> EmbedDim,
                        status |-> "completed"]]
    /\ failed_chunks = <<>>
    /\ jobs = <<>>
    /\ h = IdleHandler
    /\ t = [i \in 1..MaxCallers |->
               [IdleThread EXCEPT !.pc = "poll",
                                  !.key = S3Key(S3_INCOMING_PREFIX, "a.txt", "")]]
    /\ results = <<>>

NextSync ==
    \/ \E i \in DOMAIN t : L_Poll(i)
    \/ \E i \in DOMAIN t : L_Start(i)
    \/ \E j \in DOMAIN jobs : ServiceAdvance(j)

SpecSync == InitSync /\ [][NextSync]_vars

(***************************************************************************)
(* SpecStore: store_chunks_in_aurora called up to MaxStoreCalls times on   *)
(* the rows of two documents that insert_document_record has created.      *)
(***************************************************************************)
RowsOf(rows, document_id) ==
    {k \in DOMAIN rows : rows[k].document_id = document_id}

AllEmbedded(embs) == \A k \in DOMAIN embs : embs[k] = EmbedDim

InitStore ==
    /\ split_args = [text |-> <<>>, chunk_size |-> CHUNK_SIZE,
                     overlap |-> DefaultOverlap]
    /\ split_ret = IdleSplitRet
    /\ store_call = NoStoreCall
    /\ embed = IdleEmbed
    /\ query = IdleQuery
    /\ cosine = IdleCosine
    /\ NoCalls
    /\ ingest = <<>>
    /\ api = IdleApi
    /\ trig = IdleTrigger
    /\ deployment = "lambda_codes"
    /\ documents = [d \in 1..2 |->
                       [s3_key |-> S3Key(S3_INCOMING_PREFIX,
                                         IF d = 1 THEN "a.txt" ELSE "b.txt", ""),
                        status |-> "processing", ingestion_job_id |-> NoJob,
                        error_message |-> NULL, chunk_count |-> 0]]
    /\ document_chunks = <<>>
    /\ failed_chunks = <<>>
    /\ jobs = <<>>
    /\ h = IdleHandler
    /\ t = IdleThreads
    /\ results = <<>>

\* one call store_chunks_in_aurora(document_id, chunks, metadata_dict) that
\* gets a connection; "repeated" records that the call before it had the
\* same document and chunk list and that in both every chunk was embedded
CallStoreChunks(document_id, text, embs) ==
    LET chunks == HandlerChunks(text).chunks
        r == store_chunks_in_aurora(document_id, chunks, embs,
                                    document_chunks, failed_chunks)
    IN  /\ store_call.n < MaxStoreCalls
        /\ document_chunks' = r.document_chunks
        /\ failed_chunks' = r.failed_chunks
        /\ store_call' =
              [n |-> store_call.n + 1, document_id |-> document_id,
               chunks |-> chunks, embs |-> embs,
               stored_count |-> r.stored_count,
               rows_before |-> Cardinality(RowsOf(document_chunks, document_id)),
               repeated |-> /\ store_call.n >= 1
                            /\ store_call.document_id = document_id
                            /\ store_call.chunks = chunks
                            /\ AllEmbedded(store_call.embs)
                            /\ AllEmbedded(embs)]
        /\ UNCHANGED <<callVars, s3Vars, cosine, ingest, api, trig, split_args, split_ret, embed, query, deployment, documents,
                       jobs, h, t, results>>

\* texts of one, two and three chunks
StoreTextWords == {1, CHUNK_SIZE + 1, MaxStoreWords}

NextStore ==
    \E document_id \in DOMAIN documents, text \in StoreTextWords :
        \E embs \in [1..Len(HandlerChunks(text).chunks) -> EmbeddingResults] :
            CallStoreChunks(document_id, text, embs)

SpecStore == InitStore /\ [][NextStore]_vars

(***************************************************************************)
(* get_chunk_embedding (lambda/main_handler.py) and SpecEmbed: one call    *)
(* with retries in 0..MaxRetries against an embedding service whose        *)
(* answers to the successive invoke_model calls are given by "answers".    *)
(***************************************************************************)
EMBED_RETRIES == 3
EMBED_RETRY_SECONDS == 2

\* invoke_model answers with an embedding of 1536 floats, with a body that
\* has no embedding, or raises
ServiceAnswers == {"embedding", "no_embedding", "error"}

Backoff_Constant(attempt) == EMBED_RETRY_SECONDS

\* time.sleep(EMBED_RETRY_SECONDS * attempt)
Backoff(attempt) == EMBED_RETRY_SECONDS * attempt

\* "if attempt < retries"
MayRetry(attempt, retries) == attempt < retries

EmbedReturns(ret, calls) ==
    embed' = [embed EXCEPT !.pc = "returned", !.ret = ret, !.calls = calls]

\* one iteration of "for attempt in range(1, retries+1)" up to the return or
\* the sleep; an exhausted range (retries = 0) falls off the function
E_Invoke ==
    /\ embed.pc = "invoke"
    /\ IF embed.attempt > embed.retries
       THEN EmbedReturns(NoneEmb, embed.calls)
       ELSE LET answer == embed.answers[embed.attempt]
                calls == embed.calls + 1
            IN  CASE answer = "embedding" -> EmbedReturns(EmbedDim, calls)
                  [] answer = "no_embedding" -> EmbedReturns(0, calls)
                  [] answer = "error" ->
                        IF MayRetry(embed.attempt, embed.retries)
                        THEN embed' = [embed EXCEPT !.pc = "sleep", !.calls = calls]
                        ELSE EmbedReturns(0, calls)
    /\ UNCHANGED <<callVars, s3Vars, cosine, ingest, api, trig, split_args, split_ret, store_call, query, deployment, storeVars,
                   jobs, h, t, results>>

E_Sleep ==
    /\ embed.pc = "sleep"
    /\ embed' = [embed EXCEPT !.pc = "invoke",
                              !.waits = Append(@, Backoff(embed.attempt)),
                              !.attempt = @ + 1]
    /\ UNCHANGED <<callVars, s3Vars, cosine, ingest, api, trig, split_args, split_ret, store_call, query, deployment, storeVars,
                   jobs, h, t, results>>

InitEmbed ==
    /\ split_args = [text |-> <<>>, chunk_size |-> CHUNK_SIZE,
                     overlap |-> DefaultOverlap]
    /\ split_ret = IdleSplitRet
    /\ store_call = NoStoreCall
    /\ \E n \in 0..MaxRetries :
          \E answers \in [1..n -> ServiceAnswers] :
             embed = [IdleEmbed EXCEPT !.pc = "invoke", !.retries = n,
                                       !.answers = answers, !.attempt = 1]
    /\ query = IdleQuery
    /\ cosine = IdleCosine
    /\ NoCalls
    /\ ingest = <<>>
    /\ api = IdleApi
    /\ trig = IdleTrigger
    /\ deployment = "lambda"
    /\ EmptyStore
    /\ jobs = <<>>
    /\ h = IdleHandler
    /\ t = IdleThreads
    /\ results = <<>>

NextEmbed ==
    \/ E_Invoke
    \/ E_Sleep

SpecEmbed == InitEmbed /\ [][NextEmbed]_vars

(***************************************************************************)
(* Retrieval: query_top_chunks (lambda/main_handler.py) and                *)
(* query_top_chunks_batch (lambda/knowledgebase_handler.py), and           *)
(* SpecQuery: retrieval calls interleaved with committed writes of up to   *)
(* MaxRows chunk rows.  In this specification the embedding column holds   *)
(* the vector itself, with two components standing for the 1536.           *)
(***************************************************************************)
StoredVectors == {<<1, 0>>, <<-1, 0>>}

\* a query embedding: [] when get_chunk_embedding failed, a vector of the
\* stored dimension, or a vector of another dimension
QueryEmbeddings == {<<>>, <<1, 0>>, <<0, 1>>, <<1>>}

ChunkStatuses == {"completed", "pending", "failed"}

\* tenant_id of a chunk's metadata: process_s3_file draws one per document
Tenants == {"tenant-a", "tenant-b"}

RECURSIVE DotZip(_, _, _)
\* sum(x*y for x, y in zip(a, b)), from position k on
DotZip(a, b, k) ==
    IF k > Len(a) \/ k > Len(b) THEN 0
    ELSE a[k] * b[k] + DotZip(a, b, k + 1)

ZeroNorm_Both(norm_a, norm_b) == norm_a = 0 /\ norm_b = 0

\* `norm_a and norm_b` is false when either norm is 0.0; the norms are kept
\* squared, which is zero exactly when the norm is
ZeroNorm(norm_a, norm_b) == norm_a = 0 \/ norm_b = 0

\* dot/(norm_a*norm_b) raises ZeroDivisionError when it is evaluated with a
\* zero product
DivisionRaises(a, b) ==
    LET na == DotZip(a, a, 1)
        nb == DotZip(b, b, 1)
    IN  ~ZeroNorm(na, nb) /\ na * nb = 0

\* cosine_similarity: dot/(norm_a*norm_b), or 0.0 when a norm is zero.  The
\* float is kept as sign(dot) * 100 * dot^2 / (|a|^2 |b|^2) rounded towards
\* zero, which orders the pairs as their cosines do.  No value is returned
\* when the division raises.
cosine_similarity(a, b) ==
    LET dot == DotZip(a, b, 1)
        na == DotZip(a, a, 1)
        nb == DotZip(b, b, 1)
    IN  IF ZeroNorm(na, nb) \/ DivisionRaises(a, b) THEN 0
        ELSE LET sq == (dot * dot * 100) \div (na * nb)
             IN  IF dot < 0 THEN -sq ELSE sq

FetchCompleted_All(rows) == [p \in 1..Len(rows) |-> p]

\* SELECT ... FROM document_chunks WHERE status='completed': the positions
\* of the rows returned, in the order of the table
FetchCompleted(rows) ==
    LET Completed(p) == rows[p].status = "completed"
    IN  SelectSeq([p \in 1..Len(rows) |-> p], Completed)

Precedes_Strict(x, e) == x.similarity > e.similarity

\* list.sort(key=similarity, reverse=True) is stable: an entry stays behind
\* the earlier entries of the same similarity
Precedes(x, e) == x.similarity >= e.similarity

InsertEntry(sorted, e) ==
    LET n == Cardinality({k \in DOMAIN sorted : Precedes(sorted[k], e)})
    IN  SubSeq(sorted, 1, n) \o <<e>> \o SubSeq(sorted, n + 1, Len(sorted))

RECURSIVE SortBySimilarity(_, _, _)
SortBySimilarity(entries, k, sorted) ==
    IF k > Len(entries) THEN sorted
    ELSE SortBySimilarity(entries, k + 1, InsertEntry(sorted, entries[k]))

\* top[:top_k] for top_k >= 0
TakeTop(top, top_k) == SubSeq(top, 1, Min(top_k, Len(top)))

ScoreEntries(rows, fetched, q) ==
    [k \in DOMAIN fetched |->
        [chunk_text |-> fetched[k],
         similarity |-> cosine_similarity(q, rows[fetched[k]].embedding)]]

\* query_top_chunks for one query whose embedding is q: rows with an empty
\* vector are dropped, an empty q gives [], rows of another length than q
\* are skipped
query_top_chunks(rows, q, top_k) ==
    LET fetched == FetchCompleted(rows)
        HasVector(p) == rows[p].embedding # <<>>
        SameLength(p) == Len(rows[p].embedding) = Len(q)
        chunk_vectors == SelectSeq(fetched, HasVector)
        top == ScoreEntries(rows, SelectSeq(chunk_vectors, SameLength), q)
    IN  [rows |-> fetched,
         result |-> IF q = <<>> THEN <<>>
                    ELSE TakeTop(SortBySimilarity(top, 1, <<>>), top_k)]

\* query_top_chunks_batch for one query embedding: every fetched row is
\* scored, whatever its length
query_top_chunks_batch(rows, q, top_k) ==
    LET fetched == FetchCompleted(rows)
        top == ScoreEntries(rows, fetched, q)
    IN  [rows |-> fetched,
         result |-> TakeTop(SortBySimilarity(top, 1, <<>>), top_k)]

\* a committed INSERT into document_chunks by an ingestion
Q_StoreWrite(status, vec, tenant_id) ==
    /\ deployment = "retrieval"
    /\ Len(document_chunks) < MaxRows
    /\ document_chunks' = Append(document_chunks,
           [document_id |-> 1, chunk_index |-> Len(document_chunks),
            chunk_text |-> <<0, 1>>, embedding |-> vec,
            metadata |-> [tenant_id |-> tenant_id], status |-> status])
    /\ UNCHANGED <<chunkVars, s3Vars, deployment, documents, failed_chunks, jobs, h, t,
                   results>>

\* lambda_handler with a query event: only the query texts reach
\* query_top_chunks; a tenant_id that the event carries as a filter is kept
\* here as part of the request and is read by no line of the handler
Q_Query(q, top_k, tenant_id) ==
    /\ deployment = "retrieval"
    /\ LET r == query_top_chunks(document_chunks, q, top_k)
       IN  query' = [pc |-> "returned", fn |-> "query_top_chunks", q |-> q,
                     top_k |-> top_k, tenant_id |-> tenant_id,
                     rows |-> r.rows, result |-> r.result]
    /\ UNCHANGED <<callVars, s3Vars, cosine, ingest, api, trig, split_args, split_ret, store_call, embed, deployment, storeVars,
                   jobs, h, t, results>>

Q_QueryBatch(q, top_k) ==
    /\ deployment = "retrieval"
    /\ LET r == query_top_chunks_batch(document_chunks, q, top_k)
       IN  query' = [pc |-> "returned", fn |-> "query_top_chunks_batch", q |-> q,
                     top_k |-> top_k, tenant_id |-> NULL,
                     rows |-> r.rows, result |-> r.result]
    /\ UNCHANGED <<callVars, s3Vars, cosine, ingest, api, trig, split_args, split_ret, store_call, embed, deployment, storeVars,
                   jobs, h, t, results>>

InitQuery ==
    /\ split_args = [text |-> <<>>, chunk_size |-> CHUNK_SIZE,
                     overlap |-> DefaultOverlap]
    /\ split_ret = IdleSplitRet
    /\ store_call = NoStoreCall
    /\ embed = IdleEmbed
    /\ query = IdleQuery
    /\ cosine = IdleCosine
    /\ NoCalls
    /\ ingest = <<>>
    /\ api = IdleApi
    /\ trig = IdleTrigger
    /\ deployment = "retrieval"
    /\ EmptyStore
    /\ jobs = <<>>
    /\ h = IdleHandler
    /\ t = IdleThreads
    /\ results = <<>>

NextQuery ==
    \/ \E status \in ChunkStatuses, vec \in StoredVectors :
          Q_StoreWrite(status, vec, "tenant-a")
    \/ \E q \in QueryEmbeddings, top_k \in 0..MaxTopK : Q_Query(q, top_k, NULL)
    \/ \E q \in {<<1, 0>>, <<1>>}, top_k \in 0..MaxTopK : Q_QueryBatch(q, top_k)

SpecQuery == InitQuery /\ [][NextQuery]_vars

(***************************************************************************)
(* trigger_bedrock_ingestion (lambda/main_handler.py) step by step, and    *)
(* SpecWait: one call of a waiting function beside the managed index,      *)
(* either trigger_bedrock_ingestion with its wait_until_ingestion_free     *)
(* loops and backoff sleeps, or wait_for_bedrock_job (lambda_codes).  The  *)
(* clock of wait_until_ingestion_free is advanced by its sleeps only,      *)
(* which gives the largest number of polls.                                *)
(***************************************************************************)
INGEST_RETRY_BASE_SECONDS == 5
WaitTimeout == 30
WaitPollInterval == 3
JitterMax == 2

\* for attempt in range(max_retries): the next attempt begins with
\* wait_until_ingestion_free, or the loop is over and None is returned
T_For ==
    /\ trig.pc = "for"
    /\ IF trig.attempt < MAX_INGEST_RETRIES
       THEN trig' = [trig EXCEPT !.pc = "wait", !.elapsed = 0, !.polls = 0,
                                 !.listing = NULL]
       ELSE trig' = [trig EXCEPT !.pc = "returned", !.ret = "None"]
    /\ UNCHANGED <<callVars, s3Vars, split_args, split_ret, store_call, embed, query, cosine, ingest,
                   api, deployment, storeVars, jobs, h, t, results>>

SeenRunning_ListErrorIsBusy(listing) == listing = "error" \/ is_ingestion_running

\* is_ingestion_running over what list_active_ingestion_jobs returned: the
\* summaries, or [] when list_ingestion_jobs raised
SeenRunning(listing) == listing = "ok" /\ is_ingestion_running

\* wait_until_ingestion_free: one evaluation of the while condition, with
\* its call of list_ingestion_jobs, and the loop body when it holds
T_WaitPoll(listing) ==
    /\ trig.pc = "wait"
    /\ IF ~SeenRunning(listing)
       THEN trig' = [trig EXCEPT !.pc = "start", !.polls = @ + 1,
                                 !.listing = listing, !.wait_ok = TRUE]
       ELSE IF trig.elapsed > WaitTimeout
            THEN trig' = [trig EXCEPT !.pc = "start", !.polls = @ + 1,
                                      !.listing = listing, !.wait_ok = FALSE]
            ELSE trig' = [trig EXCEPT !.polls = @ + 1, !.listing = listing,
                                      !.elapsed = @ + WaitPollInterval]
    /\ UNCHANGED <<callVars, s3Vars, split_args, split_ret, store_call, embed, query, cosine, ingest,
                   api, deployment, storeVars, jobs, h, t, results>>

\* start_ingestion_job: the job id is returned, or ConflictException or
\* another exception is caught
T_Start ==
    /\ trig.pc = "start"
    /\ \/ /\ ServiceAcceptsStart
          /\ jobs' = Append(jobs, "IN_PROGRESS")
          /\ trig' = [trig EXCEPT !.pc = "returned", !.starts = @ + 1,
                                  !.ret = "job_id"]
       \/ /\ ~ServiceAcceptsStart
          /\ trig' = [trig EXCEPT !.pc = "sleep", !.starts = @ + 1,
                                  !.error = "ConflictException"]
          /\ UNCHANGED jobs
       \/ /\ trig' = [trig EXCEPT !.pc = "sleep", !.starts = @ + 1,
                                  !.error = "Exception"]
          /\ UNCHANGED jobs
    /\ UNCHANGED <<callVars, s3Vars, split_args, split_ret, store_call, embed, query, cosine, ingest,
                   api, deployment, storeVars, h, t, results>>

\* both except clauses: backoff = INGEST_RETRY_BASE_SECONDS * (2**attempt)
\* + random.uniform(0, 2); time.sleep(backoff); then the next iteration
T_Sleep(jitter) ==
    /\ trig.pc = "sleep"
    /\ trig' = [trig EXCEPT
           !.pc = "for",
           !.attempt = @ + 1,
           !.sleeps = @ + 1,
           !.backoff = INGEST_RETRY_BASE_SECONDS * (2 ^ trig.attempt) + jitter]
    /\ UNCHANGED <<callVars, s3Vars, split_args, split_ret, store_call, embed, query, cosine, ingest,
                   api, deployment, storeVars, jobs, h, t, results>>

InitWait ==
    /\ split_args = [text |-> <<>>, chunk_size |-> CHUNK_SIZE,
                     overlap |-> DefaultOverlap]
    /\ split_ret = IdleSplitRet
    /\ store_call = NoStoreCall
    /\ embed = IdleEmbed
    /\ query = IdleQuery
    /\ cosine = IdleCosine
    /\ NoCalls
    /\ ingest = <<>>
    /\ api = IdleApi
    /\ deployment \in {"lambda_codes", "lambda"}
    /\ EmptyStore
    /\ IF deployment = "lambda_codes"
       THEN /\ jobs = <<"IN_PROGRESS">>
            /\ h = [IdleHandler EXCEPT !.pc = "wait", !.job_id = 1]
            /\ trig = IdleTrigger
       ELSE /\ jobs \in {<<>>, <<"IN_PROGRESS">>}
            /\ h = IdleHandler
            /\ trig = [IdleTrigger EXCEPT !.pc = "for"]
    /\ t = IdleThreads
    /\ results = <<>>

NextWait ==
    \/ T_For
    \/ \E listing \in {"ok", "error"} : T_WaitPoll(listing)
    \/ T_Start
    \/ \E jitter \in 0..JitterMax : T_Sleep(jitter)
    \/ H_Poll
    \/ \E j \in DOMAIN jobs : ServiceAdvance(j)

SpecWait == InitWait /\ [][NextWait]_vars

\* the functions take their steps; the service need not
SpecWaitFair ==
    /\ SpecWait
    /\ WF_vars(T_For)
    /\ WF_vars(\E listing \in {"ok", "error"} : T_WaitPoll(listing))
    /\ WF_vars(T_Start)
    /\ WF_vars(\E jitter \in 0..JitterMax : T_Sleep(jitter))
    /\ WF_vars(H_Poll)

(***************************************************************************)
(* SpecDup: MaxIngestions invocations of lambda_handler (lambda_codes),    *)
(* each with one S3 record for the same key, run concurrently against the  *)
(* same database.  A transaction takes effect at its commit; the unique    *)
(* index on documents.s3_key makes the second INSERT of a key wait for the *)
(* first transaction and then fail.                                        *)
(***************************************************************************)
DupKey == S3Key(S3_INCOMING_PREFIX, "a.txt", "")

DupTextWords == {1, CHUNK_SIZE + 1}

IdleIngestion ==
    [pc |-> "extract", text |-> 0, doc_id |-> 0, embs |-> <<>>,
     stored_count |-> 0, raised |-> NULL, status |-> NULL]

IngestionExcept(i, reason) ==
    ingest' = [ingest EXCEPT ![i].pc = "done", ![i].raised = reason,
                             ![i].status = "error"]

\* extract_text_from_s3, the metadata file, and insert_document_record
D_InsertDocument(i, out) ==
    /\ ingest[i].pc = "extract"
    /\ IF out = "ok" /\ ~KeyExists(DupKey)
       THEN /\ documents' = Append(documents,
                   [s3_key |-> DupKey, status |-> "processing",
                    ingestion_job_id |-> NoJob, error_message |-> NULL,
                    chunk_count |-> 0])
            /\ ingest' = [ingest EXCEPT ![i].pc = "store",
                                        ![i].doc_id = Len(documents) + 1]
       ELSE /\ IngestionExcept(i, IF out = "ok" THEN "UniqueViolation"
                                  ELSE "OperationalError")
            /\ UNCHANGED documents
    /\ UNCHANGED <<callVars, s3Vars, trig, split_args, split_ret, store_call, embed, query, cosine, api,
                   deployment, document_chunks, failed_chunks, jobs, h, t, results>>

\* split_chunk_text and store_chunks_in_aurora
D_StoreChunks(i) ==
    /\ ingest[i].pc = "store"
    /\ LET cr == HandlerChunks(ingest[i].text) IN
       \/ \* get_db_conn() raises before the try block
          /\ IngestionExcept(i, "OperationalError")
          /\ UNCHANGED <<document_chunks, failed_chunks>>
       \/ \E embs \in [DOMAIN cr.chunks -> EmbeddingResults] :
             LET r == store_chunks_in_aurora(ingest[i].doc_id, cr.chunks, embs,
                                             document_chunks, failed_chunks)
             IN  /\ document_chunks' = r.document_chunks
                 /\ failed_chunks' = r.failed_chunks
                 /\ ingest' = [ingest EXCEPT ![i].pc = "update_processing",
                                             ![i].embs = embs,
                                             ![i].stored_count = r.stored_count]
    /\ UNCHANGED <<callVars, s3Vars, trig, split_args, split_ret, store_call, embed, query, cosine, api,
                   deployment, documents, jobs, h, t, results>>

\* update_document_status(doc_id, status="processing", chunk_count=stored_count)
D_UpdateProcessing(i) ==
    /\ ingest[i].pc = "update_processing"
    /\ documents' = UpdateDocumentRow(documents, ingest[i].doc_id, "processing",
                                      NoJob, NULL, ingest[i].stored_count)
    /\ ingest' = [ingest EXCEPT ![i].pc = "sync"]
    /\ UNCHANGED <<callVars, s3Vars, trig, split_args, split_ret, store_call, embed, query, cosine, api,
                   deployment, document_chunks, failed_chunks, jobs, h, t, results>>

\* trigger_bedrock_ingestion, wait_for_bedrock_job and the last
\* update_document_status, with what the service answered
D_Sync(i, job_status) ==
    /\ ingest[i].pc = "sync"
    /\ documents' = UpdateDocumentRow(documents, ingest[i].doc_id, job_status,
                                      NoJob,
                                      IF job_status = "failed" THEN "N/A" ELSE NULL,
                                      ingest[i].stored_count)
    /\ ingest' = [ingest EXCEPT ![i].pc = "done", ![i].status = job_status]
    /\ UNCHANGED <<callVars, s3Vars, trig, split_args, split_ret, store_call, embed, query, cosine, api,
                   deployment, document_chunks, failed_chunks, jobs, h, t, results>>

InitDup ==
    /\ split_args = [text |-> <<>>, chunk_size |-> CHUNK_SIZE,
                     overlap |-> DefaultOverlap]
    /\ split_ret = IdleSplitRet
    /\ store_call = NoStoreCall
    /\ embed = IdleEmbed
    /\ query = IdleQuery
    /\ cosine = IdleCosine
    /\ NoCalls
    /\ \E w \in DupTextWords :
          ingest = [i \in 1..MaxIngestions |-> [IdleIngestion EXCEPT !.text = w]]
    /\ api = IdleApi
    /\ trig = IdleTrigger
    /\ deployment = "lambda_codes"
    /\ EmptyStore
    /\ jobs = <<>>
    /\ h = IdleHandler
    /\ t = IdleThreads
    /\ results = <<>>

NextDup ==
    \E i \in DOMAIN ingest :
        \/ \E out \in {"ok", "connect_error"} : D_InsertDocument(i, out)
        \/ D_StoreChunks(i)
        \/ D_UpdateProcessing(i)
        \/ \E job_status \in {"complete", "failed"} : D_Sync(i, job_status)

SpecDup == InitDup /\ [][NextDup]_vars

(***************************************************************************)
(* SpecCosine: cosine_similarity applied to every pair of vectors of up to *)
(* MaxDim components.                                                      *)
(***************************************************************************)
VectorComponents == {-1, 0, 1}

Vectors == UNION {[1..n -> VectorComponents] : n \in 0..MaxDim}

C_Return ==
    /\ cosine.pc = "called"
    /\ cosine' = [cosine EXCEPT
           !.pc = "returned",
           !.ret = cosine_similarity(cosine.a, cosine.b),
           !.raised = IF DivisionRaises(cosine.a, cosine.b)
                      THEN "ZeroDivisionError" ELSE NULL]
    /\ UNCHANGED <<callVars, s3Vars, trig, split_args, split_ret, store_call, embed, query, ingest, api,
                   deployment, storeVars, jobs, h, t, results>>

InitCosine ==
    /\ NoCalls
    /\ split_args = [text |-> <<>>, chunk_size |-> CHUNK_SIZE,
                     overlap |-> DefaultOverlap]
    /\ split_ret = IdleSplitRet
    /\ store_call = NoStoreCall
    /\ embed = IdleEmbed
    /\ query = IdleQuery
    /\ \E a \in Vectors, b \in Vectors :
          cosine = [IdleCosine EXCEPT !.pc = "called", !.a = a, !.b = b]
    /\ ingest = <<>>
    /\ api = IdleApi
    /\ trig = IdleTrigger
    /\ deployment = "retrieval"
    /\ EmptyStore
    /\ jobs = <<>>
    /\ h = IdleHandler
    /\ t = IdleThreads
    /\ results = <<>>

NextCosine == C_Return

SpecCosine == InitCosine /\ [][NextCosine]_vars

\* SpecFilter: queries that carry a tenant filter, over completed chunks of
\* two tenants
NextFilter ==
    \/ \E vec \in StoredVectors, tenant_id \in Tenants :
          Q_StoreWrite("completed", vec, tenant_id)
    \/ \E top_k \in 0..MaxTopK, tenant_id \in Tenants \cup {NULL} :
          Q_Query(<<1, 0>>, top_k, tenant_id)

SpecFilter == InitQuery /\ [][NextFilter]_vars

(***************************************************************************)
(* lambda_handler of lambda/ingest.py, called once per record by           *)
(* lambda_handler of lambda/main_hanlder.py, and SpecBatch: one invocation *)
(* of the latter on an event of at most MaxEventRecords records.  The      *)
(* tables are those of lambda/init_db.py; a sync job that is running when  *)
(* the invocation begins, or that it starts, runs on until it has ended.    *)
(***************************************************************************)
INGEST_CHUNK_SIZE == 500
SYNC_ATTEMPTS == 5

EventKeys ==
    {S3Key(S3_INCOMING_PREFIX, "a.txt", ""), S3Key(S3_INCOMING_PREFIX, "b.txt", "")}

\* the words of the object's text
EventTextWords == {0, 1, INGEST_CHUNK_SIZE + 1}

EventRecords == [key : EventKeys, text : EventTextWords]

Events == UNION {[1..n -> EventRecords] : n \in 0..MaxEventRecords}

\* What reading the object gives extract_text_from_s3: get_object raises,
\* the parser raises (the function returns ""), or the text.
ExtractOutcomes == {"ok", "get_object_error", "parse_error"}

\* leaving "with conn:": COMMIT when the block ended normally, ROLLBACK when
\* it is left by an exception
ConnExit_CommitOnError(rows, tx_rows, raised) == rows \o tx_rows

ConnExit(rows, tx_rows, raised) == IF raised THEN rows ELSE rows \o tx_rows

\* exceptions that come from the database, the bucket or the embedding model
Faults == {"OperationalError", "DatabaseError", "ClientError"}

\* an exception leaves "with conn:" and the try/finally and ends the call;
\* "faults" counts the failures of the services the handler calls
IngestRaises(exception, tx_documents) ==
    /\ ingest_h' = [ingest_h EXCEPT !.pc = "raised", !.raised = exception,
                                    !.tx_documents = tx_documents,
                                    !.faults = IF exception \in Faults THEN @ + 1 ELSE @]
    /\ documents' = ConnExit(documents, tx_documents, TRUE)
    /\ document_chunks' = ConnExit(document_chunks, ingest_h.tx_chunks, TRUE)

\* conn = get_db_connection(), before the try
I_Connect(out) ==
    /\ deployment = "lambda_ingest"
    /\ ingest_h.pc = "connect"
    /\ IF out = "connect_error"
       THEN ingest_h' = [ingest_h EXCEPT !.pc = "raised", !.raised = "OperationalError",
                                         !.faults = @ + 1]
       ELSE ingest_h' = [ingest_h EXCEPT !.pc = "records"]
    /\ UNCHANGED <<split_args, split_ret, store_call, embed, query, cosine, ingest,
                   api, trig, s3Vars, router, retr, monitor, cfn, deployment,
                   storeVars, jobs, h, t, results>>

\* Step 1, one iteration of "for record in event['Records']".  In
\* "for chunk_index, chunk_text in chunk_text(document_text)" the target
\* makes chunk_text a local name of lambda_handler, so the call reads the
\* local: unbound in the first iteration that gets there (UnboundLocalError),
\* a str in a later one (TypeError).
I_Record(extracted, out) ==
    /\ deployment = "lambda_ingest"
    /\ ingest_h.pc = "records"
    /\ ingest_h.n < Len(router.event)
    /\ LET record == router.event[ingest_h.n + 1]
           document_text == IF extracted = "ok" THEN record.text ELSE 0
           row == [document_name |-> record.key, status |-> "in-progress"]
       IN  IF extracted = "get_object_error"
           THEN IngestRaises("ClientError", ingest_h.tx_documents)
           ELSE IF document_text = 0
           THEN /\ ingest_h' = [ingest_h EXCEPT !.n = @ + 1,
                                               !.texts = Append(@, document_text),
                                               !.faults = IF extracted = "ok" THEN @
                                                          ELSE @ + 1]
                /\ UNCHANGED <<documents, document_chunks>>
           ELSE IF out # "ok"
           THEN IngestRaises("DatabaseError", ingest_h.tx_documents)
           ELSE IF ~ingest_h.chunk_text_bound
           THEN IngestRaises("UnboundLocalError", Append(ingest_h.tx_documents, row))
           ELSE IngestRaises("TypeError", Append(ingest_h.tx_documents, row))
    /\ UNCHANGED <<split_args, split_ret, store_call, embed, query, cosine, ingest,
                   api, trig, s3Vars, router, retr, monitor, cfn, deployment,
                   failed_chunks, jobs, h, t, results>>

\* Steps 2 to 4 and the end of "with conn:".  get_batch_embeddings calls the
\* model once per BATCH_SIZE chunks, so not at all for an empty all_chunks;
\* a connection that executed no statement has nothing to commit.
I_Store(embedded, out) ==
    /\ deployment = "lambda_ingest"
    /\ ingest_h.pc = "records"
    /\ ingest_h.n = Len(router.event)
    /\ IF ingest_h.all_chunks # <<>> /\ ~embedded
       THEN IngestRaises("ClientError", ingest_h.tx_documents)
       ELSE IF ingest_h.tx_documents # <<>> /\ out # "ok"
       THEN IngestRaises("DatabaseError", ingest_h.tx_documents)
       ELSE LET completed ==
                    [k \in DOMAIN ingest_h.tx_documents |->
                        IF \E c \in DOMAIN ingest_h.all_chunks :
                              ingest_h.all_chunks[c].document_id =
                                  ingest_h.docs_before + k
                        THEN [ingest_h.tx_documents[k] EXCEPT !.status = "completed"]
                        ELSE ingest_h.tx_documents[k]]
                rows == [c \in DOMAIN ingest_h.all_chunks |->
                            [ingest_h.all_chunks[c] EXCEPT !.status = "completed"]]
            IN  /\ documents' = ConnExit(documents, completed, FALSE)
                /\ document_chunks' = ConnExit(document_chunks, rows, FALSE)
                /\ ingest_h' = [ingest_h EXCEPT !.pc = "sync"]
    /\ UNCHANGED <<split_args, split_ret, store_call, embed, query, cosine, ingest,
                   api, trig, s3Vars, router, retr, monitor, cfn, deployment,
                   failed_chunks, jobs, h, t, results>>

\* start_kb_sync, one iteration of "for attempt in range(5)", inside the
\* try/except of lambda_handler that only prints a warning
I_Sync(error) ==
    /\ deployment = "lambda_ingest"
    /\ ingest_h.pc = "sync"
    /\ IF error
       THEN /\ ingest_h' = [ingest_h EXCEPT !.pc = "return"]
            /\ UNCHANGED jobs
       ELSE IF ServiceAcceptsStart
       THEN /\ jobs' = Append(jobs, "IN_PROGRESS")
            /\ ingest_h' = [ingest_h EXCEPT !.pc = "return"]
       ELSE /\ ingest_h' =
                  IF ingest_h.attempt + 1 < SYNC_ATTEMPTS
                  THEN [ingest_h EXCEPT !.attempt = @ + 1]
                  ELSE [ingest_h EXCEPT !.pc = "return"]
            /\ UNCHANGED jobs
    /\ UNCHANGED <<split_args, split_ret, store_call, embed, query, cosine, ingest,
                   api, trig, s3Vars, router, retr, monitor, cfn, deployment,
                   storeVars, h, t, results>>

I_Return ==
    /\ deployment = "lambda_ingest"
    /\ ingest_h.pc = "return"
    /\ ingest_h' = [ingest_h EXCEPT !.pc = "returned", !.statusCode = 200]
    /\ UNCHANGED <<split_args, split_ret, store_call, embed, query, cosine, ingest,
                   api, trig, s3Vars, router, retr, monitor, cfn, deployment,
                   storeVars, jobs, h, t, results>>

\* main_hanlder.lambda_handler, "for record in event.get('Records', [])":
\* ingest_handler(event, context) is called with the event itself
IngestArgument(event, i) == event

R_Call ==
    /\ deployment = "lambda_ingest"
    /\ router.pc = "loop"
    /\ router.i < Len(router.records)
    /\ router' = [router EXCEPT !.pc = "ingest",
                     !.event = IngestArgument(router.records, router.i + 1)]
    /\ ingest_h' = [IdleBatch EXCEPT !.pc = "connect", !.calls = ingest_h.calls + 1,
                                     !.faults = ingest_h.faults,
                                     !.docs_before = Len(documents),
                                     !.chunks_before = Len(document_chunks)]
    /\ UNCHANGED <<split_args, split_ret, store_call, embed, query, cosine, ingest,
                   api, trig, s3Vars, retr, monitor, cfn, deployment,
                   storeVars, jobs, h, t, results>>

\* ingest_handler has returned or raised; "except Exception" of the loop
\* body appends an error entry
R_Ingested ==
    /\ deployment = "lambda_ingest"
    /\ router.pc = "ingest"
    /\ ingest_h.pc \in {"returned", "raised"}
    /\ IF ingest_h.pc = "raised"
       THEN router' = [router EXCEPT !.pc = "loop", !.i = @ + 1,
                          !.responses = Append(@,
                              [s3_key |-> router.records[router.i + 1].key,
                               error |-> ingest_h.raised,
                               ingest_response |-> 0, kb_response |-> 0])]
       ELSE router' = [router EXCEPT !.pc = "kb"]
    /\ UNCHANGED <<split_args, split_ret, store_call, embed, query, cosine, ingest,
                   api, trig, s3Vars, ingest_h, retr, monitor, cfn, deployment,
                   storeVars, jobs, h, t, results>>

\* kb_handler(event, context) answers 500 when the embedding or the query
\* fails, else it calls its own start_kb_sync and answers 200
R_Kb(statusCode, started) ==
    /\ deployment = "lambda_ingest"
    /\ router.pc = "kb"
    /\ IF statusCode = 200 /\ started /\ ServiceAcceptsStart
       THEN jobs' = Append(jobs, "IN_PROGRESS")
       ELSE UNCHANGED jobs
    /\ router' = [router EXCEPT !.pc = "loop", !.i = @ + 1,
                     !.responses = Append(@,
                         [s3_key |-> router.records[router.i + 1].key,
                          error |-> NULL,
                          ingest_response |-> ingest_h.statusCode,
                          kb_response |-> statusCode])]
    /\ UNCHANGED <<split_args, split_ret, store_call, embed, query, cosine, ingest,
                   api, trig, s3Vars, ingest_h, retr, monitor, cfn, deployment,
                   storeVars, h, t, results>>

R_Return ==
    /\ deployment = "lambda_ingest"
    /\ router.pc = "loop"
    /\ router.i = Len(router.records)
    /\ router' = [router EXCEPT !.pc = "returned"]
    /\ UNCHANGED <<split_args, split_ret, store_call, embed, query, cosine, ingest,
                   api, trig, s3Vars, ingest_h, retr, monitor, cfn, deployment,
                   storeVars, jobs, h, t, results>>

InitBatch ==
    /\ split_args = [text |-> <<>>, chunk_size |-> CHUNK_SIZE,
                     overlap |-> DefaultOverlap]
    /\ split_ret = IdleSplitRet
    /\ store_call = NoStoreCall
    /\ embed = IdleEmbed
    /\ query = IdleQuery
    /\ cosine = IdleCosine
    /\ ingest = <<>>
    /\ api = IdleApi
    /\ trig = IdleTrigger
    /\ s3_objects = <<>>
    /\ uuids = IdleUuids
    /\ ingest_h = IdleBatch
    /\ \E records \in Events :
          router = [IdleRouter EXCEPT !.pc = "loop", !.records = records]
    /\ retr = IdleRetrieve
    /\ monitor = IdleMonitor
    /\ cfn = IdleCfn
    /\ deployment = "lambda_ingest"
    /\ EmptyStore
    /\ jobs \in {<<>>, <<"IN_PROGRESS">>}
    /\ h = IdleHandler
    /\ t = IdleThreads
    /\ results = <<>>

NextBatch ==
    \/ R_Call
    \/ \E out \in DbOutcomes : I_Connect(out)
    \/ \E extracted \in ExtractOutcomes, out \in DbOutcomes : I_Record(extracted, out)
    \/ \E embedded \in BOOLEAN, out \in DbOutcomes : I_Store(embedded, out)
    \/ \E error \in BOOLEAN : I_Sync(error)
    \/ I_Return
    \/ R_Ingested
    \/ \E statusCode \in {200, 500}, started \in BOOLEAN : R_Kb(statusCode, started)
    \/ R_Return

SpecBatch == InitBatch /\ [][NextBatch]_vars

(***************************************************************************)
(* retrieve_from_knowledge_base (lambda_codes/main_handler.py) and         *)
(* SpecRetrieve: one call against a managed index that holds one chunk of  *)
(* each tenant, with the documents table holding the row of one of the two *)
(* objects.                                                                *)
(***************************************************************************)
TOP_K == 5

IndexedKeys ==
    [tenant \in Tenants |-> S3Key(S3_INCOMING_PREFIX,
                                   IF tenant = "tenant-a" THEN "a.txt" ELSE "b.txt", "")]

\* an entry of response['retrievalResults']
RetrievalItem(tenant_id, score) ==
    [content |-> tenant_id, score |-> score, s3_location |-> IndexedKeys[tenant_id],
     tenant_id |-> tenant_id]

\* 'equals' on tenant_id, the only condition when only tenant_id is given
MatchesFilter(item, tenant_id) == tenant_id = NULL \/ item.tenant_id = tenant_id

\* The answers bedrock_agent.retrieve can give: at most numberOfResults
\* chunks that satisfy the filter, best score first.
RetrieveAnswers(k, tenant_id) ==
    LET matching == {x \in Tenants : MatchesFilter(RetrievalItem(x, 0), tenant_id)}
        one == {<<RetrievalItem(x, 9)>> : x \in matching}
        two == {<<RetrievalItem(p[1], 9), RetrievalItem(p[2], 7)>> :
                    p \in {q \in matching \X matching : q[1] # q[2]}}
    IN  {<<>>} \cup (IF k >= 1 THEN one ELSE {}) \cup (IF k >= 2 THEN two ELSE {})

\* "SELECT document_id FROM documents WHERE s3_key = %s"
DocumentIdOf(s3_key) ==
    IF \E d \in DOMAIN documents : documents[d].s3_key = s3_key
    THEN CHOOSE d \in DOMAIN documents : documents[d].s3_key = s3_key
    ELSE NoDocId

\* "for rank, item in enumerate(retrieval_results, start=1)": the entries of
\* the returned list
RankedResults(retrieval_results) ==
    [r \in DOMAIN retrieval_results |->
        [rank |-> r, content |-> retrieval_results[r].content,
         score |-> retrieval_results[r].score,
         document_id |-> DocumentIdOf(retrieval_results[r].s3_location)]]

\* bedrock_agent.retrieve: an exception is caught by the outer
\* "except Exception", which returns []
RT_Retrieve(error) ==
    /\ deployment = "lambda_codes_query"
    /\ retr.pc = "retrieve"
    /\ IF error
       THEN retr' = [retr EXCEPT !.pc = "returned", !.ret = <<>>]
       ELSE \E answer \in RetrieveAnswers(retr.k, retr.tenant_id) :
               retr' = [retr EXCEPT !.pc = "store", !.retrieved = TRUE,
                                    !.retrieval_results = answer]
    /\ UNCHANGED <<split_args, split_ret, store_call, embed, query, cosine, ingest,
                   api, trig, s3Vars, ingest_h, router, monitor, cfn, deployment,
                   storeVars, jobs, h, t, results>>

\* "Store query and results in Aurora": get_db_conn() and the INSERTs into
\* query_history and query_results in one transaction.  The inner try has
\* only a finally clause, so an exception of the connection or of a
\* statement goes to the outer "except Exception", which returns [].
RT_Store(out) ==
    /\ deployment = "lambda_codes_query"
    /\ retr.pc = "store"
    /\ IF out = "ok"
       THEN LET ranked == RankedResults(retr.retrieval_results)
            IN  retr' = [retr EXCEPT !.pc = "returned", !.ret = ranked,
                            !.query_history = Append(@,
                                [result_count |-> Len(retr.retrieval_results)]),
                            !.query_results = @ \o ranked]
       ELSE retr' = [retr EXCEPT !.pc = "returned", !.ret = <<>>, !.audit_failed = TRUE]
    /\ UNCHANGED <<split_args, split_ret, store_call, embed, query, cosine, ingest,
                   api, trig, s3Vars, ingest_h, router, monitor, cfn, deployment,
                   storeVars, jobs, h, t, results>>

InitRetrieve ==
    /\ split_args = [text |-> <<>>, chunk_size |-> CHUNK_SIZE,
                     overlap |-> DefaultOverlap]
    /\ split_ret = IdleSplitRet
    /\ store_call = NoStoreCall
    /\ embed = IdleEmbed
    /\ query = IdleQuery
    /\ cosine = IdleCosine
    /\ ingest = <<>>
    /\ api = IdleApi
    /\ trig = IdleTrigger
    /\ s3_objects = <<>>
    /\ uuids = IdleUuids
    /\ ingest_h = IdleBatch
    /\ router = IdleRouter
    /\ \E k \in (0..MaxTopK) \cup {TOP_K}, tenant_id \in Tenants \cup {NULL} :
          retr = [IdleRetrieve EXCEPT !.pc = "retrieve", !.k = k,
                                      !.tenant_id = tenant_id]
    /\ monitor = IdleMonitor
    /\ cfn = IdleCfn
    /\ deployment = "lambda_codes_query"
    /\ \E status \in {"processing", "complete", "failed"} :
          documents = <<[s3_key |-> IndexedKeys["tenant-a"], status |-> status,
                         ingestion_job_id |-> NoJob, error_message |-> NULL,
                         chunk_count |-> 1]>>
    /\ document_chunks = <<>>
    /\ failed_chunks = <<>>
    /\ jobs = <<>>
    /\ h = IdleHandler
    /\ t = IdleThreads
    /\ results = <<>>

NextRetrieve ==
    \/ \E error \in BOOLEAN : RT_Retrieve(error)
    \/ \E out \in DbOutcomes : RT_Store(out)

SpecRetrieve == InitRetrieve /\ [][NextRetrieve]_vars

(***************************************************************************)
(* ChatApp.upload_with_monitoring (app.py) and SpecMonitor: one upload     *)
(* whose S3 event is handled by lambda_handler (lambda_codes) while the    *)
(* monitor polls get_document_status.                                      *)
(***************************************************************************)
max_polls == 60

UploadedKey == S3Key(S3_INCOMING_PREFIX, "a.txt", "")

\* "Step 1: Upload to S3"; the object created in the bucket invokes the
\* handler with its record.  An exception of upload_file is reported by the
\* "except Exception" of the generator.
M_Upload(uploaded) ==
    /\ deployment = "lambda_codes"
    /\ monitor.pc = "upload"
    /\ IF uploaded
       THEN /\ monitor' = [monitor EXCEPT !.pc = "poll"]
            /\ h' = [IdleHandler EXCEPT !.pc = "loop"]
       ELSE /\ monitor' = [monitor EXCEPT !.pc = "done", !.yielded = @ \cup {"Error"}]
            /\ UNCHANGED h
    /\ UNCHANGED <<split_args, split_ret, store_call, embed, query, cosine, ingest,
                   api, trig, s3Vars, ingest_h, router, retr, cfn, deployment,
                   storeVars, jobs, t, results>>

\* one iteration of "while poll_count < max_polls": the poll, the yields
\* for the status it observed, and "break" on 'completed' and on 'failed'
M_Poll(out, chunks_read) ==
    /\ deployment = "lambda_codes"
    /\ monitor.pc = "poll"
    /\ monitor.poll_count < max_polls
    /\ LET poll_count == monitor.poll_count + 1
           document_status == get_document_status(NoDocId, monitor.s3_key, out)
           status == document_status.ret.status
       IN  IF document_status.raised # NULL
           THEN monitor' = [monitor EXCEPT !.pc = "done", !.poll_count = poll_count,
                                           !.yielded = @ \cup {"Error"}]
           ELSE IF document_status.ret = NoRow
           THEN monitor' = [monitor EXCEPT !.poll_count = poll_count]
           ELSE IF status = "completed"
           THEN monitor' = [monitor EXCEPT
                               !.pc = IF chunks_read THEN "after_loop" ELSE "done",
                               !.poll_count = poll_count, !.status = status,
                               !.terminal_poll = poll_count,
                               !.yielded = @ \cup (IF chunks_read THEN {"Complete"}
                                                   ELSE {"Complete", "Error"})]
           ELSE IF status = "failed"
           THEN monitor' = [monitor EXCEPT !.pc = "after_loop",
                                           !.poll_count = poll_count, !.status = status,
                                           !.terminal_poll = poll_count,
                                           !.yielded = @ \cup {"Failed"}]
           ELSE monitor' = [monitor EXCEPT !.poll_count = poll_count,
                                           !.status = status]
    /\ UNCHANGED <<split_args, split_ret, store_call, embed, query, cosine, ingest,
                   api, trig, s3Vars, ingest_h, router, retr, cfn, deployment,
                   storeVars, jobs, h, t, results>>

\* the loop has ended, by its condition or by break:
\* "if poll_count >= max_polls: yield Timeout"
M_AfterLoop ==
    /\ deployment = "lambda_codes"
    /\ \/ monitor.pc = "after_loop"
       \/ monitor.pc = "poll" /\ monitor.poll_count >= max_polls
    /\ monitor' = [monitor EXCEPT !.pc = "done",
                      !.yielded = IF monitor.poll_count >= max_polls
                                  THEN @ \cup {"Timeout"} ELSE @]
    /\ UNCHANGED <<split_args, split_ret, store_call, embed, query, cosine, ingest,
                   api, trig, s3Vars, ingest_h, router, retr, cfn, deployment,
                   storeVars, jobs, h, t, results>>

InitMonitor ==
    /\ split_args = [text |-> <<>>, chunk_size |-> CHUNK_SIZE,
                     overlap |-> DefaultOverlap]
    /\ split_ret = IdleSplitRet
    /\ store_call = NoStoreCall
    /\ embed = IdleEmbed
    /\ query = IdleQuery
    /\ cosine = IdleCosine
    /\ ingest = <<>>
    /\ api = IdleApi
    /\ trig = IdleTrigger
    /\ s3_objects = <<>>
    /\ uuids = IdleUuids
    /\ ingest_h = IdleBatch
    /\ router = IdleRouter
    /\ retr = IdleRetrieve
    /\ monitor = [IdleMonitor EXCEPT !.pc = "upload", !.s3_key = UploadedKey]
    /\ cfn = IdleCfn
    /\ deployment = "lambda_codes"
    /\ EmptyStore
    /\ jobs = <<>>
    /\ h = IdleHandler
    /\ t = IdleThreads
    /\ results = <<>>

\* the event of the upload has one record
NextMonitor ==
    \/ \E uploaded \in BOOLEAN : M_Upload(uploaded)
    \/ \E out \in DbOutcomes, chunks_read \in BOOLEAN : M_Poll(out, chunks_read)
    \/ M_AfterLoop
    \/ h.n = 0 /\ H_Record(monitor.s3_key)
    \/ h.n = 1 /\ H_Return
    \/ H_Extract
    \/ \E out \in DbOutcomes : H_InsertDocument(out)
    \/ H_StoreChunks
    \/ \E out \in DbOutcomes : H_UpdateProcessing(out)
    \/ H_Trigger
    \/ \E out \in DbOutcomes : H_UpdateStartFailed(out)
    \/ H_Poll
    \/ \E out \in DbOutcomes : H_FinalUpdate(out)
    \/ \E j \in DOMAIN jobs : ServiceAdvance(j)

SpecMonitor == InitMonitor /\ [][NextMonitor]_vars

(***************************************************************************)
(* SpecChain: one object is uploaded under the incoming prefix; the bucket *)
(* notifies lambda_handler (lambda_codes) of every object created in it,   *)
(* one invocation per object, among them the objects the handler puts.     *)
(***************************************************************************)
\* the bucket invokes the handler with the record of a created object, once
\* the invocation before it has returned
S_Notify(o) ==
    /\ deployment = "lambda_codes"
    /\ h.pc \in {"idle", "returned"}
    /\ s3_objects[o].event = "pending"
    /\ s3_objects' =
          [x \in DOMAIN s3_objects |->
              IF x = o THEN [s3_objects[x] EXCEPT !.event = "handling"]
              ELSE IF s3_objects[x].event = "handling"
                   THEN [s3_objects[x] EXCEPT !.event = "handled"]
                   ELSE s3_objects[x]]
    /\ h' = [IdleHandler EXCEPT !.pc = "loop"]
    /\ UNCHANGED <<chunkVars, uuids, deployment, storeVars, jobs, t, results>>

InitChain ==
    /\ split_args = [text |-> <<>>, chunk_size |-> CHUNK_SIZE,
                     overlap |-> DefaultOverlap]
    /\ split_ret = IdleSplitRet
    /\ store_call = NoStoreCall
    /\ embed = IdleEmbed
    /\ query = IdleQuery
    /\ cosine = IdleCosine
    /\ ingest = <<>>
    /\ api = IdleApi
    /\ trig = IdleTrigger
    /\ s3_objects = <<[key |-> UploadedKey, of |-> UploadedKey,
                       document_id |-> NoDocId, event |-> "pending"]>>
    /\ uuids = IdleUuids
    /\ ingest_h = IdleBatch
    /\ router = IdleRouter
    /\ retr = IdleRetrieve
    /\ monitor = IdleMonitor
    /\ cfn = IdleCfn
    /\ deployment = "lambda_codes"
    /\ EmptyStore
    /\ jobs = <<>>
    /\ h = IdleHandler
    /\ t = IdleThreads
    /\ results = <<>>

\* every event has one record, the created object
NextChain ==
    \/ \E o \in DOMAIN s3_objects : S_Notify(o)
    \/ \E o \in DOMAIN s3_objects :
          s3_objects[o].event = "handling" /\ h.n = 0 /\ H_Record(s3_objects[o].key)
    \/ h.n = 1 /\ H_Return
    \/ H_Extract
    \/ \E out \in DbOutcomes : H_InsertDocument(out)
    \/ H_StoreChunks
    \/ \E out \in DbOutcomes : H_UpdateProcessing(out)
    \/ H_Trigger
    \/ \E out \in DbOutcomes : H_UpdateStartFailed(out)
    \/ H_Poll
    \/ \E out \in DbOutcomes : H_FinalUpdate(out)
    \/ \E j \in DOMAIN jobs : ServiceAdvance(j)

SpecChain == InitChain /\ [][NextChain]_vars

(***************************************************************************)
(* SpecCfn: the two custom-resource handlers, lambda_handler of            *)
(* src/lambda/index.py (creates the vector index) and lambda_handler of    *)
(* src/lambda_codes/init_db.py (creates the schema), each invoked once     *)
(* with an event that may or may not carry a ResponseURL and the           *)
(* ResourceProperties index.py reads.                                      *)
(***************************************************************************)
CfnHandlers == {"index", "init_db"}

\* the properties index.py reads, in the order it reads them
IndexProperties == <<"CollectionEndpoint", "IndexName", "Region">>

PropertyNames == {IndexProperties[i] : i \in DOMAIN IndexProperties}

\* the events: ResponseURL present or not, ResourceProperties present or
\* not, and any subset of the expected properties in it
CfnEvents ==
    {[ResponseURL |-> u, ResourceProperties |-> r, properties |-> p] :
        u \in BOOLEAN, r \in BOOLEAN, p \in SUBSET PropertyNames}
    \ {e \in [ResponseURL : BOOLEAN, ResourceProperties : BOOLEAN,
              properties : SUBSET PropertyNames] :
          ~e.ResourceProperties /\ e.properties # {}}

\* event['ResourceProperties'][name] raises KeyError
KeyMissing(event, name) ==
    ~event.ResourceProperties \/ name \notin event.properties

\* send_cfn_response: nothing is sent for an event without ResponseURL; the
\* PUT is attempted otherwise and its failure is swallowed
send_cfn_response(c, status, put_ok) ==
    IF ~c.event.ResponseURL THEN c
    ELSE [c EXCEPT !.responses =
             Append(@, [Status |-> status, delivered |-> put_ok])]

\* the except clause of index.py builds {'IndexName': index_name} before it
\* calls send_cfn_response: an unbound index_name raises UnboundLocalError
IndexExcept(c, put_ok) ==
    IF c.index_name_bound
    THEN [send_cfn_response(c, "FAILED", put_ok) EXCEPT
             !.pc = "returned", !.statusCode = 500]
    ELSE [c EXCEPT !.pc = "raised", !.raised = "UnboundLocalError"]

\* the service invokes one of the handlers
C_Invoke(handler, event) ==
    /\ cfn.pc = "idle"
    /\ cfn' = [cfn EXCEPT !.pc = "try", !.handler = handler, !.event = event]
    /\ UNCHANGED <<split_args, split_ret, store_call, embed, query, cosine,
                   ingest, api, trig, ingest_h, router, retr, monitor, s3Vars,
                   deployment, storeVars, jobs, h, t, results>>

\* index.py, lines 42-44: the three subscripts, the first missing key raises
X_ReadProperties(put_ok) ==
    /\ cfn.pc = "try"
    /\ cfn.handler = "index"
    /\ LET missing == {i \in DOMAIN IndexProperties :
                          KeyMissing(cfn.event, IndexProperties[i])}
           first == IF missing = {} THEN Len(IndexProperties) + 1
                    ELSE CHOOSE i \in missing : \A j \in missing : i <= j
           read == [cfn EXCEPT !.index_name_bound = first > 2]
       IN  cfn' = IF missing = {}
                  THEN [read EXCEPT !.pc = "exists"]
                  ELSE IndexExcept([read EXCEPT !.error = TRUE], put_ok)
    /\ UNCHANGED <<split_args, split_ret, store_call, embed, query, cosine,
                   ingest, api, trig, ingest_h, router, retr, monitor, s3Vars,
                   deployment, storeVars, jobs, h, t, results>>

\* index.py, lines 47-67: the client is built and the index looked up
X_Exists(out, put_ok) ==
    /\ cfn.pc = "exists"
    /\ cfn' = CASE out = "exists" ->
                     [send_cfn_response(cfn, "SUCCESS", put_ok) EXCEPT
                         !.pc = "returned", !.statusCode = 200]
                [] out = "absent" -> [cfn EXCEPT !.pc = "create"]
                [] OTHER -> IndexExcept([cfn EXCEPT !.error = TRUE], put_ok)
    /\ UNCHANGED <<split_args, split_ret, store_call, embed, query, cosine,
                   ingest, api, trig, ingest_h, router, retr, monitor, s3Vars,
                   deployment, storeVars, jobs, h, t, results>>

\* index.py, lines 99-105: the index is created, the handler sleeps, sends
\* SUCCESS and falls off the end of the function
X_Create(created, put_ok) ==
    /\ cfn.pc = "create"
    /\ cfn' = IF created
              THEN [send_cfn_response(cfn, "SUCCESS", put_ok) EXCEPT
                       !.pc = "returned"]
              ELSE IndexExcept([cfn EXCEPT !.error = TRUE], put_ok)
    /\ UNCHANGED <<split_args, split_ret, store_call, embed, query, cosine,
                   ingest, api, trig, ingest_h, router, retr, monitor, s3Vars,
                   deployment, storeVars, jobs, h, t, results>>

\* init_db.py, lines 79-80: get_db_conn and the cursor
D_Connect(connected) ==
    /\ cfn.pc = "try"
    /\ cfn.handler = "init_db"
    /\ cfn' = IF connected
              THEN [cfn EXCEPT !.pc = "schema", !.conn = TRUE]
              ELSE [cfn EXCEPT !.pc = "except", !.error = TRUE]
    /\ UNCHANGED <<split_args, split_ret, store_call, embed, query, cosine,
                   ingest, api, trig, ingest_h, router, retr, monitor, s3Vars,
                   deployment, storeVars, jobs, h, t, results>>

\* init_db.py, lines 83-306: the extensions, the version test, the tables,
\* the commit and the row counts, then SUCCESS
D_Schema(initialized, put_ok) ==
    /\ cfn.pc = "schema"
    /\ cfn' = IF initialized
              THEN [send_cfn_response(cfn, "SUCCESS", put_ok) EXCEPT
                       !.pc = "finally", !.statusCode = 200]
              ELSE [cfn EXCEPT !.pc = "except", !.error = TRUE]
    /\ UNCHANGED <<split_args, split_ret, store_call, embed, query, cosine,
                   ingest, api, trig, ingest_h, router, retr, monitor, s3Vars,
                   deployment, storeVars, jobs, h, t, results>>

\* init_db.py, lines 308-312
D_Except(put_ok) ==
    /\ cfn.pc = "except"
    /\ cfn' = [send_cfn_response(cfn, "FAILED", put_ok) EXCEPT
                  !.pc = "finally", !.statusCode = 500]
    /\ UNCHANGED <<split_args, split_ret, store_call, embed, query, cosine,
                   ingest, api, trig, ingest_h, router, retr, monitor, s3Vars,
                   deployment, storeVars, jobs, h, t, results>>

\* init_db.py, lines 314-318: the cursor and the connection are closed
D_Finally ==
    /\ cfn.pc = "finally"
    /\ cfn' = [cfn EXCEPT !.pc = "returned", !.conn = FALSE]
    /\ UNCHANGED <<split_args, split_ret, store_call, embed, query, cosine,
                   ingest, api, trig, ingest_h, router, retr, monitor, s3Vars,
                   deployment, storeVars, jobs, h, t, results>>

InitCfn ==
    /\ split_args = [text |-> <<>>, chunk_size |-> CHUNK_SIZE,
                     overlap |-> DefaultOverlap]
    /\ split_ret = IdleSplitRet
    /\ store_call = NoStoreCall
    /\ embed = IdleEmbed
    /\ query = IdleQuery
    /\ cosine = IdleCosine
    /\ ingest = <<>>
    /\ api = IdleApi
    /\ trig = IdleTrigger
    /\ s3_objects = <<>>
    /\ uuids = IdleUuids
    /\ ingest_h = IdleBatch
    /\ router = IdleRouter
    /\ retr = IdleRetrieve
    /\ monitor = IdleMonitor
    /\ cfn = IdleCfn
    /\ deployment = "custom_resource"
    /\ EmptyStore
    /\ jobs = <<>>
    /\ h = IdleHandler
    /\ t = IdleThreads
    /\ results = <<>>

NextCfn ==
    \/ \E handler \in CfnHandlers, event \in CfnEvents : C_Invoke(handler, event)
    \/ \E put_ok \in BOOLEAN : X_ReadProperties(put_ok)
    \/ \E out \in {"exists", "absent", "error"}, put_ok \in BOOLEAN :
          X_Exists(out, put_ok)
    \/ \E created \in BOOLEAN, put_ok \in BOOLEAN : X_Create(created, put_ok)
    \/ \E connected \in BOOLEAN : D_Connect(connected)
    \/ \E initialized \in BOOLEAN, put_ok \in BOOLEAN :
          D_Schema(initialized, put_ok)
    \/ \E put_ok \in BOOLEAN : D_Except(put_ok)
    \/ D_Finally

SpecCfn == InitCfn /\ [][NextCfn]_vars

(***************************************************************************)
(* Claims about split_chunk_text (checked under SpecChunk).                *)
(***************************************************************************)
ValidSplitCall ==
    /\ split_ret.done
    /\ 0 <= split_args.overlap
    /\ split_args.overlap < split_args.chunk_size

\* The zero-based number of the last window: the first j whose end
\* j*s + chunk_size reaches the number of words n.
LastWindow(n, chunk_size, s) ==
    CHOOSE j \in 0..n : /\ j * s + chunk_size >= n
                        /\ \A k \in 0..(j - 1) : k * s + chunk_size < n

ExpectedWindows(words, chunk_size, overlap) ==
    LET n == Len(words)
        s == chunk_size - overlap
    IN  IF n = 0 THEN <<>>
        ELSE [j \in 1..(LastWindow(n, chunk_size, s) + 1) |->
                 Join(SubSeq(words, (j - 1) * s + 1,
                             Min((j - 1) * s + chunk_size, n)))]

FoxChunks ==
    << <<"T", "h", "e", " ", "q", "u", "i", "c", "k", " ", "b", "r", "o", "w", "n",
         " ", "f", "o", "x">>,
       <<"f", "o", "x", " ", "j", "u", "m", "p", "s", " ", "o", "v", "e", "r",
         " ", "t", "h", "e">>,
       <<"t", "h", "e", " ", "l", "a", "z", "y", " ", "d", "o", "g">> >>

\* C9: for 0 <= overlap < chunk_size the chunks returned are exactly the
\* windows words[j*s : j*s + chunk_size], j = 0, 1, ..., s = chunk_size -
\* overlap, up to and including the first window whose end reaches the end
\* of the words (so the short final window appears once and an empty text
\* gives no chunk); the fox sentence with chunk_size 4 and overlap 1 gives
\* exactly its three expected chunks.
C9_ChunkWindows ==
    ValidSplitCall =>
        /\ split_ret.raised = NULL
        /\ split_ret.chunks = ExpectedWindows(Split(split_args.text),
                                              split_args.chunk_size,
                                              split_args.overlap)
        /\ (split_args = [text |-> FoxText, chunk_size |-> 4, overlap |-> 1]
               => split_ret.chunks = FoxChunks)

C9_Witness ==
    /\ ValidSplitCall
    /\ split_args.text = FoxText
    /\ Len(split_ret.chunks) = 3
    /\ Len(Split(split_ret.chunks[3])) < split_args.chunk_size

RECURSIVE NonOverlapping(_, _, _)
\* the first chunk in full, every later chunk without its first overlap words
NonOverlapping(chunks, j, overlap) ==
    IF j > Len(chunks) THEN <<>>
    ELSE LET w == Split(chunks[j])
             part == IF j = 1 THEN w ELSE SubSeq(w, overlap + 1, Len(w))
         IN  part \o NonOverlapping(chunks, j + 1, overlap)

\* C10: for 0 <= overlap < chunk_size, the first chunk followed by every
\* later chunk without its first overlap words is the original word
\* sequence: no word dropped, none repeated.
C10_ChunkCoverage ==
    ValidSplitCall =>
        NonOverlapping(split_ret.chunks, 1, split_args.overlap)
            = Split(split_args.text)

C10_Witness ==
    /\ ValidSplitCall
    /\ split_args.text # FoxText
    /\ split_args.overlap >= 1
    /\ Len(split_ret.chunks) >= 3

(***************************************************************************)
(* Claims about the ingestion handlers (checked under Spec).               *)
(***************************************************************************)
DocStatuses == {"pending", "processing", "completed", "failed"}

LifecycleStep(old, new) ==
    \/ old = "pending" /\ new = "processing"
    \/ old = "processing" /\ new \in {"completed", "failed"}

\* C1: the status of every documents row is one of pending, processing,
\* completed, failed, and a status only changes along
\* pending -> processing -> (completed | failed).
C1_DocumentLifecycle ==
    /\ [](\A d \in DOMAIN documents : documents[d].status \in DocStatuses)
    /\ [][\A d \in DOMAIN documents :
             documents'[d].status # documents[d].status
                => LifecycleStep(documents[d].status, documents'[d].status)]_vars

\* C2: when the S3 branch of lambda_handler has returned, every documents
\* row it created has status completed or failed, with an error message
\* recorded in the failed case.
C2_NoDocumentLeftProcessing ==
    (deployment = "lambda_codes" /\ h.pc = "returned") =>
        \A d \in DOMAIN documents :
            /\ documents[d].status \in {"completed", "failed"}
            /\ documents[d].status = "failed" => documents[d].error_message # NULL

KeyOf(row) == IF deployment = "lambda_codes" THEN row.s3_key ELSE row.document_name

\* C4: ingesting an S3 key that already has a documents row does not fail
\* on the existing row, and every key has at most one documents row.
C4_DocumentUpsertIdempotent ==
    /\ deployment = "lambda_codes" =>
          \A k \in DOMAIN results :
              results[k].status = "error" => results[k].reason # "UniqueViolation"
    /\ \A d1, d2 \in DOMAIN documents :
          KeyOf(documents[d1]) = KeyOf(documents[d2]) => d1 = d2

\* C5: every document_chunks row with status completed carries an embedding
\* vector of the fixed dimension; a chunk whose embedding failed (None or
\* empty) is never stored as completed, in either handler revision.
C5_CompletedChunksHaveEmbedding ==
    \A k \in DOMAIN document_chunks :
        document_chunks[k].status = "completed"
            => document_chunks[k].embedding = EmbedDim

\* a chunk 1 is stored as completed while chunk 0 of the same document,
\* whose embedding failed, has no row
C5_Witness ==
    \E k \in DOMAIN document_chunks :
        /\ document_chunks[k].chunk_index = 1
        /\ document_chunks[k].status = "completed"
        /\ \A k2 \in DOMAIN document_chunks : document_chunks[k2].chunk_index # 0

SyncFailureMessages ==
    {"Failed to start ingestion job", "Job polling timeout", "failure_reason",
     "poll_error"}

\* C6: a document whose stored chunk rows are all there (their number is the
\* recorded chunk_count) is never moved to failed by a failure of the sync:
\* not by a failed start, a failed job or an unfinished poll.
C6_SyncFailureNotFatal ==
    deployment = "lambda_codes" =>
        \A d \in DOMAIN documents :
            (/\ documents[d].error_message \in SyncFailureMessages
             /\ documents[d].chunk_count >= 1
             /\ documents[d].chunk_count
                    = Cardinality(RowsOf(document_chunks, d)))
                => documents[d].status # "failed"

(***************************************************************************)
(* Claims about store_chunks_in_aurora (checked under SpecStore).          *)
(***************************************************************************)
\* C3: after store_chunks_in_aurora has been called twice in a row with the
\* same document and chunk list, every embedding succeeding, there is
\* exactly one row per (document_id, chunk_index) of the list and the
\* document has as many rows as after the first call.
C3_UpsertIdempotent ==
    store_call.repeated =>
        /\ \A idx \in 0..(Len(store_call.chunks) - 1) :
              Cardinality({k \in DOMAIN document_chunks :
                              /\ document_chunks[k].document_id = store_call.document_id
                              /\ document_chunks[k].chunk_index = idx}) = 1
        /\ Cardinality(RowsOf(document_chunks, store_call.document_id))
              = store_call.rows_before

C3_Witness ==
    /\ store_call.repeated
    /\ Len(store_call.chunks) >= 2
    /\ store_call.stored_count = Len(store_call.chunks)

(***************************************************************************)
(* Claims about trigger_bedrock_ingestion (checked under SpecSync).        *)
(***************************************************************************)
ActiveJobs == {j \in DOMAIN jobs : JobActive(j)}

C8_BackoffTermination ==
    \A i \in DOMAIN t :
        (t[i].pc = "done" /\ t[i].only_conflicts /\ t[i].trigger_ret # "job_id")
            => /\ t[i].attempt = MAX_INGEST_RETRIES
               /\ t[i].trigger_ret = "SyncError"

(***************************************************************************)
(* Further claims about split_chunk_text (checked under SpecChunk).        *)
(***************************************************************************)
\* C11: for every overlap >= chunk_size the call on a non-empty text fails
\* with an error; it does not return a chunk list, not even an empty one.
C11_OverlapFailsFast ==
    (/\ split_ret.done
     /\ split_args.overlap >= split_args.chunk_size
     /\ Split(split_args.text) # <<>>)
        => split_ret.raised # NULL

(***************************************************************************)
(* Further claims about the ingestion handlers (checked under Spec).       *)
(***************************************************************************)
CompletedRowsOf(document_id) ==
    {k \in DOMAIN document_chunks :
        /\ document_chunks[k].document_id = document_id
        /\ document_chunks[k].status = "completed"}

\* C12: a chunk_count that the handler has written for a document (any value
\* other than the column default 0) is the number of committed
\* document_chunks rows of the document with status completed.
C12_ChunkCountIsStoredRows ==
    deployment = "lambda_codes" =>
        \A d \in DOMAIN documents :
            documents[d].chunk_count # 0
                => documents[d].chunk_count = Cardinality(CompletedRowsOf(d))

\* C15: a record whose extracted text is empty leaves a documents row for
\* its key with status failed and an error message, and no chunk rows.
C15_EmptyExtractionMarkedFailed ==
    \A k \in DOMAIN results :
        (\/ deployment = "lambda_codes" /\ results[k].status = "empty"
         \/ /\ deployment = "lambda"
            /\ results[k].status = "skipped"
            /\ results[k].reason = "empty")
            => \E d \in DOMAIN documents :
                  /\ KeyOf(documents[d]) = results[k].file
                  /\ documents[d].status = "failed"
                  /\ deployment = "lambda_codes" => documents[d].error_message # NULL
                  /\ RowsOf(document_chunks, d) = {}

\* C16: when the chunk insert of upsert_document_and_chunks has failed (the
\* record is reported with the error of the aborted transaction), the
\* document is left with status failed; and no document is completed while
\* one of its chunks is missing from document_chunks.
C16_StoreWriteFailureEscalates ==
    deployment = "lambda" =>
        /\ \A k \in DOMAIN results :
              (results[k].status = "error"
                  /\ results[k].error = "InFailedSqlTransaction")
                  => \E d \in DOMAIN documents :
                        /\ documents[d].document_name = results[k].file
                        /\ documents[d].status = "failed"
        /\ \A d \in DOMAIN documents :
              documents[d].status = "completed"
                  => /\ RowsOf(document_chunks, d) # {}
                     /\ \A k \in RowsOf(document_chunks, d) :
                           \A idx \in 0..document_chunks[k].chunk_index :
                              \E k2 \in RowsOf(document_chunks, d) :
                                 document_chunks[k2].chunk_index = idx

(***************************************************************************)
(* Further claims about store_chunks_in_aurora (checked under SpecStore).  *)
(***************************************************************************)
\* the positions of the chunk list whose embedding failed (None or empty)
FailedEmbeddings(embs) == {k \in DOMAIN embs : embs[k] \in {NoneEmb, 0}}

FirstStoreCall == store_call.n = 1

\* C13: after the first store call for a document with m chunks whose
\* embedding failed for the positions F and succeeded for the others,
\* m - |F| chunks are stored as completed and failed_chunks holds exactly
\* one entry per index of F for the document.
C13_PartialFailureRecorded ==
    (FirstStoreCall /\ \A k \in DOMAIN store_call.embs :
                           store_call.embs[k] \in {NoneEmb, 0, EmbedDim})
        => LET F == FailedEmbeddings(store_call.embs)
               m == Len(store_call.chunks)
               entries == RowsOf(failed_chunks, store_call.document_id)
           IN  /\ store_call.stored_count = m - Cardinality(F)
               /\ Cardinality(RowsOf(document_chunks, store_call.document_id))
                     = m - Cardinality(F)
               /\ Cardinality(entries) = Cardinality(F)
               /\ \A k \in F : \E e \in entries :
                     failed_chunks[e].chunk_index = k - 1

\* C14: in the first store call, every chunk whose embedding succeeded and
\* whose INSERT was executed without error is committed as a completed row,
\* whatever happens to the other chunks of the list.
C14_PerChunkIsolation ==
    FirstStoreCall =>
        \A k \in DOMAIN store_call.embs :
            (\A k2 \in 1..k : VectorAccepted(store_call.embs[k2])
                                 \/ store_call.embs[k2] = 0)
              /\ store_call.embs[k] = EmbedDim
            => \E r \in RowsOf(document_chunks, store_call.document_id) :
                  /\ document_chunks[r].chunk_index = k - 1
                  /\ document_chunks[r].status = "completed"

(***************************************************************************)
(* Claims about get_chunk_embedding (checked under SpecEmbed).             *)
(***************************************************************************)
\* the attempts that the service does not answer with an exception
AnsweredAttempts == {a \in 1..embed.retries : embed.answers[a] # "error"}

FirstAnswered == CHOOSE a \in AnsweredAttempts : \A b \in AnsweredAttempts : a <= b

\* C17: a call with retries = N >= 1 calls the service at most N times and
\* stops at the first call that succeeds; it has waited
\* EMBED_RETRY_SECONDS * a after every failed attempt a < N and has not
\* waited after the N-th failed attempt.
C17_EmbedRetryPolicy ==
    embed.retries >= 1 =>
        /\ embed.calls <= embed.retries
        /\ embed.pc = "returned" =>
              /\ embed.calls = IF AnsweredAttempts = {} THEN embed.retries
                               ELSE FirstAnswered
              /\ embed.waits = [a \in 1..(embed.calls - 1) |->
                                   EMBED_RETRY_SECONDS * a]

\* the default three attempts all fail: waits of 2 and 4 seconds, no third
C17_Witness ==
    /\ embed.pc = "returned"
    /\ embed.retries = EMBED_RETRIES
    /\ AnsweredAttempts = {}
    /\ embed.calls = EMBED_RETRIES
    /\ Len(embed.waits) = EMBED_RETRIES - 1

\* C18: a call all of whose attempts failed ends with the typed failure
\* EmbeddingError, not with a value.
C18_ExhaustionIsTypedFailure ==
    (embed.pc = "returned" /\ embed.retries >= 1 /\ AnsweredAttempts = {})
        => embed.raised = "EmbeddingError"

(***************************************************************************)
(* Claims about retrieval (checked under SpecQuery).                       *)
(***************************************************************************)
\* the fetched rows that can be compared with the query embedding
Comparable ==
    {p \in {query.rows[k] : k \in DOMAIN query.rows} :
        /\ query.q # <<>>
        /\ document_chunks[p].embedding # <<>>
        /\ Len(document_chunks[p].embedding) = Len(query.q)}

ScoreOf(p) == cosine_similarity(query.q, document_chunks[p].embedding)

Returned == {query.result[k].chunk_text : k \in DOMAIN query.result}

\* C19: query_top_chunks returns min(top_k, number of comparable chunks)
\* distinct comparable chunks with their similarity, in non-increasing
\* order of similarity; no omitted chunk has a higher similarity than a
\* returned one; chunks of equal similarity are in the order of the store,
\* returned or omitted, so the list is determined by the corpus and query.
C19_TopKRetrieval ==
    (query.pc = "returned" /\ query.fn = "query_top_chunks") =>
        LET res == query.result IN
        /\ Len(res) = Min(query.top_k, Cardinality(Comparable))
        /\ Cardinality(Returned) = Len(res)
        /\ \A k \in DOMAIN res : /\ res[k].chunk_text \in Comparable
                                 /\ res[k].similarity = ScoreOf(res[k].chunk_text)
        /\ \A k1, k2 \in DOMAIN res :
              k1 < k2 => /\ res[k1].similarity >= res[k2].similarity
                         /\ res[k1].similarity = res[k2].similarity
                               => res[k1].chunk_text < res[k2].chunk_text
        /\ \A p \in Comparable \ Returned : \A k \in DOMAIN res :
              /\ ScoreOf(p) <= res[k].similarity
              /\ ScoreOf(p) = res[k].similarity => res[k].chunk_text < p

\* top_k cuts the list between two chunks of equal similarity
C19_Witness ==
    /\ query.pc = "returned"
    /\ query.fn = "query_top_chunks"
    /\ query.top_k >= 1
    /\ Len(query.result) = query.top_k
    /\ \E p \in Comparable \ Returned :
          ScoreOf(p) = query.result[Len(query.result)].similarity

CompletedPositions == {p \in DOMAIN document_chunks :
                          document_chunks[p].status = "completed"}

\* C20: every entry returned by query_top_chunks and query_top_chunks_batch
\* is a chunk with status completed, and every invocation fetches the
\* completed rows that the store holds at that time.
C20_ReadsOnlyCompleted ==
    /\ [](query.pc = "returned" =>
            \A k \in DOMAIN query.result :
                query.result[k].chunk_text \in CompletedPositions)
    /\ [][query' # query =>
            {query'.rows[k] : k \in DOMAIN query'.rows} = CompletedPositions]_vars

\* a pending or failed row that would rank above the first returned chunk
\* is in the store, and the last row committed is among the rows returned
C20_Witness ==
    /\ query.pc = "returned"
    /\ query.result # <<>>
    /\ Len(document_chunks) \in Returned
    /\ \E p \in DOMAIN document_chunks :
          /\ document_chunks[p].status \in {"pending", "failed"}
          /\ ScoreOf(p) > query.result[1].similarity

(***************************************************************************)
(* Claims about filtered retrieval (checked under SpecFilter).             *)
(***************************************************************************)
\* the completed chunks whose metadata match the tenant filter of the query
MatchingChunks ==
    {p \in CompletedPositions :
        document_chunks[p].metadata.tenant_id = query.tenant_id}

\* C21: for a query with a tenant filter, every chunk that query_top_chunks
\* returns matches the filter and the number of results is min(k, number of
\* matching chunks).
C21_FilterBeforeRank ==
    (query.pc = "returned" /\ query.fn = "query_top_chunks"
        /\ query.tenant_id # NULL) =>
        /\ Returned \subseteq MatchingChunks
        /\ Len(query.result) = Min(query.top_k, Cardinality(MatchingChunks))

(***************************************************************************)
(* Claims about cosine_similarity (checked under SpecCosine).              *)
(***************************************************************************)
\* all components are 0, or the vector is empty
IsZeroVector(v) == \A k \in DOMAIN v : v[k] = 0

\* C22: cosine_similarity(a, b) returns 0 without raising whenever a or b
\* has zero norm, so a zero query vector has similarity 0 with every vector.
C22_ZeroNormPolicy ==
    (cosine.pc = "returned" /\ (IsZeroVector(cosine.a) \/ IsZeroVector(cosine.b))) =>
        /\ cosine.raised = NULL
        /\ cosine.ret = 0

\* a zero query vector was compared with a stored vector of non-zero norm
C22_Witness ==
    /\ cosine.pc = "returned"
    /\ cosine.a = <<0, 0>>
    /\ ~IsZeroVector(cosine.b)
    /\ cosine.ret = 0

(***************************************************************************)
(* Claims about concurrent ingestion of one key (checked under SpecDup).   *)
(***************************************************************************)
DupDocuments == {d \in DOMAIN documents : documents[d].s3_key = DupKey}

ChunkRowsAt(d, idx) ==
    {p \in DOMAIN document_chunks :
        /\ document_chunks[p].document_id = d
        /\ document_chunks[p].chunk_index = idx}

\* the chunk indices that the store call of invocation i committed
CommittedIndices(i) ==
    LET embs == ingest[i].embs
        Written == {k \in DOMAIN embs : embs[k] # NoneEmb /\ embs[k] # 0}
    IN  IF \E k \in Written : embs[k] # EmbedDim THEN {}
        ELSE {k - 1 : k \in Written}

AllIngestionsDone == \A i \in DOMAIN ingest : ingest[i].pc = "done"

FailureMessages ==
    {"Failed to start ingestion job", "Job polling timeout", "poll_error",
     "failure_reason"}

\* the documents rows a get_status request selects
RequestedRows ==
    {d \in DOMAIN documents :
        IF api.document_id # NoDocId THEN d = api.document_id
        ELSE documents[d].s3_key = api.s3_key}

\* C24: a documents row with status failed has a non-null error_message,
\* one of the messages of the handler, and a row whose status is not failed
\* has error_message null; a get_status request whose query the database
\* answers gets the row it names by document_id or by s3_key with HTTP 200,
\* and HTTP 404 "Document not found" when no row matches.
C24_FailureIsVisible ==
    deployment = "lambda_codes" =>
        /\ \A d \in DOMAIN documents :
              IF documents[d].status = "failed"
              THEN documents[d].error_message \in FailureMessages
              ELSE documents[d].error_message = NULL
        /\ (api.pc = "returned" /\ api.db = "ok"
               /\ (api.document_id # NoDocId \/ api.s3_key # NoKey)) =>
              IF RequestedRows # {}
              THEN LET row == api.body.document IN
                   /\ api.statusCode = 200
                   /\ row.document_id \in RequestedRows
                   /\ row.status = documents[row.document_id].status
                   /\ row.error_message = documents[row.document_id].error_message
              ELSE /\ api.statusCode = 404
                   /\ api.body.error = "Document not found"
                   /\ api.body.document = NoRow

\* the row of a document whose job the service reported as failed was
\* fetched by its s3_key
C24_Witness ==
    /\ api.pc = "returned"
    /\ api.document_id = NoDocId
    /\ api.statusCode = 200
    /\ api.body.document.status = "failed"
    /\ api.body.document.error_message = "failure_reason"

(***************************************************************************)
(* Claims about waiting (checked under SpecWaitFair and SpecWait).         *)
(***************************************************************************)
\* ceil(MAX_POLL_SECONDS / POLL_INTERVAL)
MaxJobPolls == (MAX_POLL_SECONDS + POLL_INTERVAL - 1) \div POLL_INTERVAL

\* the polls of one wait_until_ingestion_free(timeout=30, poll_interval=3):
\* one at each multiple of the interval up to the first beyond the timeout
MaxFreePolls == (WaitTimeout \div WaitPollInterval) + 2

WaitCallOver ==
    IF deployment = "lambda_codes" THEN h.pc = "final_update"
    ELSE trig.pc = "returned"

\* C25: wait_for_bedrock_job polls the job at most
\* ceil(MAX_POLL_SECONDS / POLL_INTERVAL) times, goes on polling only after
\* a poll that reported a status that is not terminal, returns what a poll
\* reported or raised and otherwise ('failed', 'Job polling timeout');
\* wait_until_ingestion_free polls a bounded number of times and
\* trigger_bedrock_ingestion makes at most MAX_INGEST_RETRIES attempts;
\* whatever the service does, the call returns.
C25_BoundedWaiting ==
    /\ [](/\ h.polls <= MaxJobPolls
          /\ (deployment = "lambda_codes" /\ h.pc = "final_update") =>
                \/ /\ h.polls = MaxJobPolls
                   /\ h.job_status = "failed"
                   /\ h.failure_reason = "Job polling timeout"
                \/ /\ h.polls >= 1
                   /\ h.job_status = "failed"
                   /\ h.failure_reason = "poll_error"
                \/ /\ h.polls >= 1
                   /\ jobs[h.job_id] = "COMPLETE"
                   /\ h.job_status = "complete"
                   /\ h.failure_reason = NULL
                \/ /\ h.polls >= 1
                   /\ jobs[h.job_id] = "FAILED"
                   /\ h.job_status = "failed"
                   /\ h.failure_reason = "failure_reason"
          /\ trig.polls <= MaxFreePolls
          /\ trig.attempt <= MAX_INGEST_RETRIES
          /\ trig.starts <= MAX_INGEST_RETRIES)
    /\ [][(h'.pc = "wait" /\ h'.polls = h.polls + 1)
            => jobs[h.job_id] \notin {"COMPLETE", "FAILED"}]_vars
    /\ <>WaitCallOver

\* wait_for_bedrock_job gave up at the timeout after all its polls
C25_Witness ==
    /\ deployment = "lambda_codes"
    /\ h.pc = "final_update"
    /\ h.polls = MaxJobPolls
    /\ h.failure_reason = "Job polling timeout"

\* C26: every start_ingestion_job call of trigger_bedrock_ingestion comes
\* after at least one poll of the job list in the same attempt; however the
\* wait ends, at its timeout with a job still active included, the start
\* attempt follows; a failed listing counts as a free index.
C26_PollBeforeStart ==
    /\ [](trig.pc = "start" =>
            /\ trig.polls >= 1
            /\ trig.listing = "error" => trig.wait_ok
            /\ ~trig.wait_ok => (trig.listing = "ok" /\ trig.elapsed > WaitTimeout))
    /\ [][/\ trig'.starts # trig.starts => (trig.pc = "start" /\ trig.polls >= 1)
          /\ (trig.pc = "wait" /\ trig'.pc # "wait") => trig'.pc = "start"]_vars

\* the wait reached its timeout with a job still active, and the start
\* attempt is next
C26_Witness ==
    /\ trig.pc = "start"
    /\ ~trig.wait_ok
    /\ trig.polls = MaxFreePolls
    /\ \E j \in DOMAIN jobs : JobActive(j)

\* C27: trigger_bedrock_ingestion makes a further start attempt only after
\* a ConflictException; after any other failure of start_ingestion_job the
\* call ends without another wait or start.
C27_OnlyConflictsRetried ==
    /\ (trig.pc = "start" /\ trig.starts >= 1) => trig.error = "ConflictException"
    /\ trig.error = "Exception" => trig.pc \notin {"for", "wait", "start"}

\* C28: the wait after the failed start attempt number a lies in
\* [INGEST_RETRY_BASE_SECONDS * 2^a, INGEST_RETRY_BASE_SECONDS * 2^a + 2],
\* and a wait happens only between two start attempts: when the call has
\* returned there were fewer waits than start attempts.
C28_BackoffSchedule ==
    /\ trig.sleeps >= 1 =>
          LET a == trig.attempt - 1
              base == INGEST_RETRY_BASE_SECONDS * (2 ^ a)
          IN  base <= trig.backoff /\ trig.backoff <= base + JitterMax
    /\ trig.pc = "returned" => trig.sleeps < trig.starts

(***************************************************************************)
(* Claims about chunk indices (checked under SpecStore).                   *)
(***************************************************************************)
\* C29: after the first store call for a document, every chunk row of the
\* document has as chunk_index the zero-based position of its text in the
\* chunk list that was computed before the embedding calls, and holds the
\* embedding returned for that position; a chunk that was not stored
\* leaves a gap, the later chunks keep their positions.
C29_ChunkIndexIsPosition ==
    (store_call.n >= 1 /\ store_call.rows_before = 0) =>
        /\ \A r \in RowsOf(document_chunks, store_call.document_id) :
              LET idx == document_chunks[r].chunk_index IN
              /\ idx \in 0..(Len(store_call.chunks) - 1)
              /\ document_chunks[r].chunk_text = store_call.chunks[idx + 1]
              /\ document_chunks[r].embedding = store_call.embs[idx + 1]
        /\ \A k1, k2 \in DOMAIN store_call.chunks :
              k1 # k2 => store_call.chunks[k1] # store_call.chunks[k2]

\* the first chunk got no embedding and the second chunk is stored with
\* chunk_index 1
C29_Witness ==
    /\ store_call.n >= 1
    /\ store_call.rows_before = 0
    /\ store_call.embs[1] = NoneEmb
    /\ \E r \in RowsOf(document_chunks, store_call.document_id) :
          document_chunks[r].chunk_index = 1
    /\ \A r \in RowsOf(document_chunks, store_call.document_id) :
          document_chunks[r].chunk_index # 0

(***************************************************************************)
(* Claims about the order of commit and sync (checked under Spec).         *)
(***************************************************************************)
\* C30: start_ingestion_job is called for a document only after the chunk
\* rows of the document have been committed, and never when the chunk
\* transaction failed: in lambda_handler (lambda_codes) the document whose
\* job was started has a committed chunk transaction, and in
\* process_s3_file a start attempt is made only with the document and its
\* chunks committed as completed.
C30_SyncAfterCommit ==
    /\ (deployment = "lambda_codes" /\ h.pc \in {"wait", "start_failed"})
          => h.chunks_committed
    /\ deployment = "lambda" =>
          \A i \in DOMAIN t :
              (t[i].attempt >= 1 \/ t[i].trigger_ret # NULL) =>
                  \E d \in DOMAIN documents :
                      /\ documents[d].document_name = t[i].key
                      /\ documents[d].status = "completed"
                      /\ RowsOf(document_chunks, d) # {}

(***************************************************************************)
(* Claims about lambda/ingest.py and lambda/main_hanlder.py (checked under *)
(* SpecBatch).                                                             *)
(***************************************************************************)
ExpectedChunkCount(text) == (text + INGEST_CHUNK_SIZE - 1) \div INGEST_CHUNK_SIZE

\* the documents rows that the running call of ingest.lambda_handler added
RowsOfCall == (ingest_h.docs_before + 1)..Len(documents)

\* C31: the inserts and updates of one event of ingest.lambda_handler are
\* one transaction: no documents row is ever persisted as 'in-progress';
\* when the call raises (the object cannot be read, an INSERT fails, the
\* chunking or the embedding raises) the tables hold exactly the rows they
\* held before the call; when the call gets past the commit, every record
\* whose extracted text is not empty has a 'completed' documents row with
\* all of its chunks stored.
C31_AllOrNothingEvent ==
    /\ \A d \in DOMAIN documents : documents[d].status # "in-progress"
    /\ ingest_h.pc = "raised" =>
          /\ Len(documents) = ingest_h.docs_before
          /\ Len(document_chunks) = ingest_h.chunks_before
    /\ ingest_h.pc \in {"sync", "return", "returned"} =>
          \A i \in DOMAIN ingest_h.texts :
              ingest_h.texts[i] > 0 =>
                 \E d \in RowsOfCall :
                    /\ documents[d].document_name = router.event[i].key
                    /\ documents[d].status = "completed"
                    /\ Cardinality({c \in DOMAIN document_chunks :
                                       document_chunks[c].document_id = d})
                          = ExpectedChunkCount(ingest_h.texts[i])

\* the chunking raised after the INSERT of a documents row, which was
\* rolled back
C31_Witness ==
    /\ ingest_h.pc = "raised"
    /\ ingest_h.raised = "UnboundLocalError"
    /\ ingest_h.tx_documents # <<>>
    /\ documents = <<>>

RowsNamed(key) == {d \in DOMAIN documents : documents[d].document_name = key}

RecordsOf(key) == {i \in DOMAIN router.records : router.records[i].key = key}

\* C35: when main_hanlder.lambda_handler has returned from an event of n
\* records whose objects all have text, and the database, the bucket and
\* the embedding model have answered every call, each record's object has
\* been ingested exactly once (n documents rows, one per record) and the
\* response list has exactly one entry per record.
C35_EachRecordIngestedOnce ==
    (/\ router.pc = "returned"
     /\ ingest_h.faults = 0
     /\ \A i \in DOMAIN router.records : router.records[i].text > 0) =>
       /\ Len(router.responses) = Len(router.records)
       /\ Len(documents) = Len(router.records)
       /\ \A key \in EventKeys :
             Cardinality(RowsNamed(key)) = Cardinality(RecordsOf(key))

(***************************************************************************)
(* Claims about retrieve_from_knowledge_base (checked under SpecRetrieve). *)
(***************************************************************************)
\* C32: when retrieve_from_knowledge_base has returned after the managed
\* index answered the query, the returned list has one entry per received
\* result, in the order received and ranked 1..n, whether or not the write
\* of the query_history / query_results rows succeeded.
C32_ResultsIndependentOfAudit ==
    (retr.pc = "returned" /\ retr.retrieved) =>
       /\ Len(retr.ret) = Len(retr.retrieval_results)
       /\ \A r \in DOMAIN retr.ret :
             /\ retr.ret[r].rank = r
             /\ retr.ret[r].content = retr.retrieval_results[r].content

(***************************************************************************)
(* Claims about the upload monitor (checked under SpecMonitor).            *)
(***************************************************************************)
\* the final update of the handler has recorded a sync job that it saw
\* finish successfully
ProcessedSuccessfully(d) ==
    /\ documents[d].ingestion_job_id # NoJob
    /\ documents[d].status \notin {"processing", "failed"}

\* C33: the status the handler writes for a document it processed
\* successfully is 'completed', the status upload_with_monitoring waits
\* for; a monitor that has observed the status of such a document has
\* yielded 'Processing Complete' and polls no more.
C33_MonitorReachesCompletion ==
    /\ \A d \in DOMAIN documents :
          ProcessedSuccessfully(d) => documents[d].status = "completed"
    /\ monitor.status \notin {NULL, "processing", "failed"} =>
          /\ "Complete" \in monitor.yielded
          /\ monitor.pc # "poll"

TerminalStatuses == {"completed", "failed"}

\* C34: the monitor polls at most max_polls times, polls no more after the
\* poll that observed 'completed' or 'failed', and, when it ends without
\* an error, has yielded 'Timeout' exactly when no poll observed a
\* terminal status.
C34_MonitorPollingLoop ==
    /\ monitor.poll_count <= max_polls
    /\ monitor.terminal_poll # 0 =>
          /\ monitor.status \in TerminalStatuses
          /\ monitor.poll_count = monitor.terminal_poll
          /\ monitor.pc # "poll"
    /\ (monitor.pc = "done" /\ "Error" \notin monitor.yielded) =>
          ("Timeout" \in monitor.yielded <=> monitor.terminal_poll = 0)

(***************************************************************************)
(* Claims about the metadata files (checked under Spec and SpecChain).     *)
(***************************************************************************)
\* C36: for every document that has a documents row and a '.metadata.json'
\* file in the bucket, the document_id in the file equals the document_id
\* of the row.
C36_DocumentIdentityConsistent ==
    \A o \in DOMAIN s3_objects, d \in DOMAIN uuids.document_id :
        (/\ s3_objects[o].key = MetadataKey(s3_objects[o].of)
         /\ documents[d].s3_key = s3_objects[o].of) =>
            s3_objects[o].document_id = uuids.document_id[d]

IsMetadataFile(key) == key.suffix = ".metadata.json"

\* C37: the '.metadata.json' objects the handler puts into the bucket
\* cause no document to be created and no sync job to be started when
\* their own event is handled: in the chain of events started by one
\* upload there is at most one documents row, of the uploaded object, at
\* most one sync job, and at most one object besides the uploaded one.
C37_NoSelfTriggeredIngestion ==
    /\ \A d \in DOMAIN documents : ~IsMetadataFile(documents[d].s3_key)
    /\ Len(documents) <= 1
    /\ Len(jobs) <= 1
    /\ Len(s3_objects) <= 2

\* the event of the metadata file has been handled after the uploaded
\* object was ingested
C37_Witness ==
    /\ h.pc = "returned"
    /\ Len(documents) = 1
    /\ Len(jobs) = 1
    /\ \E o \in DOMAIN s3_objects :
          IsMetadataFile(s3_objects[o].key) /\ s3_objects[o].event = "handling"

(***************************************************************************)
(* Claims about the custom-resource handlers (checked under SpecCfn).      *)
(***************************************************************************)
\* C38: an invocation whose event carries a ResponseURL never has more than
\* one response attempted, and once the handler has returned or raised it
\* has attempted exactly one: SUCCESS when no step failed, FAILED when one
\* did, also for an event without the expected ResourceProperties.
C38_CustomResourceResponse ==
    cfn.event.ResponseURL =>
        /\ Len(cfn.responses) <= 1
        /\ cfn.pc \in {"returned", "raised"} =>
              /\ Len(cfn.responses) = 1
              /\ cfn.responses[1].Status =
                    (IF cfn.error THEN "FAILED" ELSE "SUCCESS")

=============================================================================
